---- MODULE Spec2Model ----
(***************************************************************************)
(* A model of yt's field machinery, yt/data_objects/field_info_container.py *)
(*                                                                         *)
(*   FieldInfoContainer  a dict of DerivedField objects with an optional   *)
(*                       fallback container                                *)
(*   DerivedField        validators + a closure, evaluated on a data       *)
(*                       object                                            *)
(*   FieldDetector       the synthetic data object that records what a     *)
(*                       field's closure requests                          *)
(*                                                                         *)
(* A Python dict is a function whose DOMAIN is its key set.  A Python      *)
(* object (a DerivedField) is a record carrying an object id, oid, that    *)
(* every construction draws fresh.                                         *)
(***************************************************************************)
EXTENDS Integers, Sequences, FiniteSets, TLC

VARIABLES
    regs,       \* container id -> its local dict: field name -> DerivedField
    fallback,   \* container id -> its fallback attribute (NoReg: None)
    alive,      \* the containers constructed so far
    nextObj,    \* the next fresh object id
    replaced,   \* history: oids of the DerivedFields an add_field overwrote
    latest,     \* history: container id -> name -> oid of the last add_field
    probe,      \* the FieldDetector the caller holds
    last        \* the last operation, its inputs and what it returned

vars == <<regs, fallback, alive, nextObj, replaced, latest, probe, last>>

regVars == <<regs, fallback, alive, nextObj, replaced, latest>>

(***************************************************************************)
(* Bounds of the model.                                                    *)
(***************************************************************************)
MaxRegs == 3

MaxObjs == 3

\* The largest ghost_zones a ValidateSpatial of the model asks for
MaxGhost == 2

\* Operations on a FieldDetector stop once a log is longer than this
MaxLog == 1

RegIds == 0 .. (MaxRegs - 1)

\* None, as the value of FieldInfoContainer.fallback
NoReg == -1

\* The module-level container FieldInfo
FieldInfo == 0

\* The field names the registry operations draw from
RegKeys == {"Density", "Temperature"}

\* dict.__iter__'s order: a dict yields its keys in hash-table order, which
\* is a fixed order of the keys it holds
KeyOrder == <<"Density", "Temperature", "bar", "baz", "Y", "X", "Velocities",
              "nofield", "Grad_Density", "Grad_Density_x", "Grad_Density_y",
              "Grad_Density_z", "Grad_Temperature", "Grad_Temperature_x",
              "Grad_Temperature_y", "Grad_Temperature_z">>

(***************************************************************************)
(* Sequences                                                               *)
(***************************************************************************)
Range(s) == {s[i] : i \in 1 .. Len(s)}

Occurrences(s, x) == Cardinality({i \in 1 .. Len(s) : s[i] = x})

NoDuplicates(s) == \A i, j \in 1 .. Len(s) : s[i] = s[j] => i = j

(***************************************************************************)
(* DerivedField.__init__: the fields of a DerivedField the model follows.  *)
(* function is the closure: [kind, ops], kind "NullFunc" for the no-op     *)
(* sentinel, "lambda" for an anonymous closure, "def" for a named one; ops *)
(* is what the closure does with the data object, in order: <<"F", f>>     *)
(* reads data[f], <<"P", p>> calls data.get_field_parameter(p), <<"R", e>> *)
(* raises the exception e(["Density"]).  units is "" when no units are     *)
(* given.                                                                  *)
(***************************************************************************)
DerivedField(oid, name, function, validators, particle_type) ==
    [oid |-> oid, name |-> name, function |-> function,
     validators |-> validators, particle_type |-> particle_type,
     units |-> ""]

\* DerivedField(name, function, units = units, ...), units a string
DerivedField_units(oid, name, function, validators, particle_type, units) ==
    [DerivedField(oid, name, function, validators, particle_type)
        EXCEPT !.units = units]

NullFunc == [kind |-> "NullFunc", ops |-> <<>>]

\* What a failed lookup carries in place of a DerivedField
NoField == DerivedField(0, "", NullFunc, <<>>, FALSE)

\* {}
EmptyDict == [x \in {} |-> NoField]

\* d[k] = v on a dict
DictSet(d, k, v) == [x \in (DOMAIN d) \cup {k} |-> IF x = k THEN v ELSE d[x]]

\* del d[k] for every key outside keep
DictKeep(d, keep) == [x \in (DOMAIN d) \cap keep |-> d[x]]

\* for f in dict.__iter__(d)
DictIter(d) == SelectSeq(KeyOrder, LAMBDA k : k \in DOMAIN d)

(***************************************************************************)
(* FieldInfoContainer                                                      *)
(***************************************************************************)
\* add_field as dict.setdefault: an existing entry is kept
add_field_KeepExisting(rs, r, name, function, validators, particle_type, oid) ==
    IF name \in DOMAIN rs[r] THEN rs
    ELSE [rs EXCEPT ![r] = DictSet(rs[r], name,
            DerivedField(oid, name, function, validators, particle_type))]

\* self[name] = DerivedField(name, function, **kwargs), directly or through
\* the decorator create_function that add_field(name) returns
add_field(rs, r, name, function, validators, particle_type, oid) ==
    [rs EXCEPT ![r] = DictSet(rs[r], name,
        DerivedField(oid, name, function, validators, particle_type))]

\* add_field(name, function = function, units = units, ...)
add_field_units(rs, r, name, function, validators, particle_type, units, oid) ==
    [rs EXCEPT ![r] = DictSet(rs[r], name,
        DerivedField_units(oid, name, function, validators, particle_type,
                           units))]

\* __contains__ without the fallback
FieldInfoContainer_contains_LocalOnly(rs, fb, r, key) == key \in DOMAIN rs[r]

RECURSIVE FieldInfoContainer_contains(_, _, _, _)
FieldInfoContainer_contains(rs, fb, r, key) ==
    IF key \in DOMAIN rs[r] THEN TRUE
    ELSE IF fb[r] = NoReg THEN FALSE
    ELSE FieldInfoContainer_contains(rs, fb, fb[r], key)

RECURSIVE has_key(_, _, _, _)
has_key(rs, fb, r, key) ==
    IF FieldInfoContainer_contains(rs, fb, r, key) THEN TRUE
    ELSE IF fb[r] = NoReg THEN FALSE
    ELSE has_key(rs, fb, fb[r], key)

RECURSIVE FieldInfoContainer_getitem(_, _, _, _)

\* __missing__ that stores what the fallback returned under self[key]
FieldInfoContainer_missing_Caches(rs, fb, r, key) ==
    IF fb[r] = NoReg
    THEN [ok |-> FALSE, exc |-> "KeyError", val |-> NoField, regs |-> rs]
    ELSE LET res == FieldInfoContainer_getitem(rs, fb, fb[r], key)
         IN IF res.ok
            THEN [res EXCEPT !.regs = [res.regs EXCEPT ![r] =
                                          DictSet(res.regs[r], key, res.val)]]
            ELSE res

\* a lookup that asks the fallback before the local dict
FieldInfoContainer_getitem_FallbackFirst(rs, fb, r, key) ==
    IF fb[r] # NoReg /\ FieldInfoContainer_getitem(rs, fb, fb[r], key).ok
    THEN FieldInfoContainer_getitem(rs, fb, fb[r], key)
    ELSE IF key \in DOMAIN rs[r]
    THEN [ok |-> TRUE, exc |-> "", val |-> rs[r][key], regs |-> rs]
    ELSE [ok |-> FALSE, exc |-> "KeyError", val |-> NoField, regs |-> rs]

\* The result of self[key]: the value or the exception, and the containers
\* as the lookup leaves them
FieldInfoContainer_missing(rs, fb, r, key) ==
    IF fb[r] = NoReg
    THEN [ok |-> FALSE, exc |-> "KeyError", val |-> NoField, regs |-> rs]
    ELSE FieldInfoContainer_getitem(rs, fb, fb[r], key)

\* dict.__getitem__ of a dict subclass that defines __missing__: the local
\* value, else whatever __missing__ returns or raises (nothing is stored)
FieldInfoContainer_getitem(rs, fb, r, key) ==
    IF key \in DOMAIN rs[r]
    THEN [ok |-> TRUE, exc |-> "", val |-> rs[r][key], regs |-> rs]
    ELSE FieldInfoContainer_missing(rs, fb, r, key)

RECURSIVE FieldInfoContainer_iter_Unique(_, _, _)
\* __iter__ that skips the fallback's keys it has already yielded
FieldInfoContainer_iter_Unique(rs, fb, r) ==
    DictIter(rs[r]) \o
    (IF fb[r] # NoReg
     THEN SelectSeq(FieldInfoContainer_iter_Unique(rs, fb, fb[r]),
                    LAMBDA k : k \notin DOMAIN rs[r])
     ELSE <<>>)

RECURSIVE FieldInfoContainer_iter(_, _, _)
FieldInfoContainer_iter(rs, fb, r) ==
    DictIter(rs[r]) \o
    (IF fb[r] # NoReg THEN FieldInfoContainer_iter(rs, fb, fb[r]) ELSE <<>>)

\* if self.fallback: the truth value of a dict is that it is not empty
RECURSIVE FieldInfoContainer_keys(_, _, _)
FieldInfoContainer_keys(rs, fb, r) ==
    DictIter(rs[r]) \o
    (IF fb[r] # NoReg /\ DOMAIN rs[fb[r]] # {}
     THEN FieldInfoContainer_keys(rs, fb, fb[r]) ELSE <<>>)

\* obj = cls(); obj.fallback = fallback, on the next unused container id
create_with_fallback(fb, r, fbk) == [fb EXCEPT ![r] = fbk]

(***************************************************************************)
(* Exceptions and validators.  An exception is [type, ghost_zones, names]; *)
(* a validator is [v, ghost_zones, names].                                 *)
(***************************************************************************)
Exc(type, ghost_zones, names) ==
    [type |-> type, ghost_zones |-> ghost_zones, names |-> names]

NoExc == Exc("", 0, <<>>)

NeedsGridType(ghost_zones, fields) == Exc("NeedsGridType", ghost_zones, fields)

NeedsOriginalGrid == Exc("NeedsOriginalGrid", 0, <<>>)

NeedsDataField(missing_fields) == Exc("NeedsDataField", 0, missing_fields)

NeedsProperty(missing_properties) == Exc("NeedsProperty", 0, missing_properties)

NeedsParameter(missing_parameters) == Exc("NeedsParameter", 0, missing_parameters)

\* A handler that catches every ValidationException
IsNeedsGridType_AnyValidation(exc) ==
    exc.type \in {"NeedsGridType", "NeedsOriginalGrid", "NeedsDataField",
                  "NeedsProperty", "NeedsParameter"}

\* except NeedsGridType catches the class and its subclass NeedsOriginalGrid
IsNeedsGridType(exc) == exc.type \in {"NeedsGridType", "NeedsOriginalGrid"}

ValidateParameter(parameters) ==
    [v |-> "ValidateParameter", ghost_zones |-> 0, names |-> parameters]

ValidateDataField(fields) ==
    [v |-> "ValidateDataField", ghost_zones |-> 0, names |-> fields]

ValidateProperty(prop) ==
    [v |-> "ValidateProperty", ghost_zones |-> 0, names |-> prop]

ValidateSpatial(ghost_zones, fields) ==
    [v |-> "ValidateSpatial", ghost_zones |-> ghost_zones, names |-> fields]

ValidateGridType == [v |-> "ValidateGridType", ghost_zones |-> 0, names |-> <<>>]

\* The attributes hasattr finds on a FieldDetector (those the model names)
DetectorAttrs == {"nd", "flat", "dds", "pf", "hierarchy", "LeftEdge",
                  "RightEdge", "ActiveDimensions", "NumberOfParticles",
                  "Level", "id", "fcoords", "icoords", "ires", "fwidth"}

\* isinstance(data, FieldDetector): of the data objects of the model only a
\* FieldDetector has a request log
IsFieldDetector(data) == "requested" \in DOMAIN data

\* A has_field_parameter that logs the parameter it is asked about
has_field_parameter_Logging(data, param) ==
    [val |-> TRUE,
     data |-> [data EXCEPT !.requested_parameters = Append(@, param)]]

\* FieldDetector.has_field_parameter: what it returns and the FieldDetector
\* afterwards
has_field_parameter(data, param) == [val |-> TRUE, data |-> data]

\* data.has_field_parameter(p): on a data object that is no FieldDetector,
\* whether p is among its field parameters
ContextHasFieldParameter(data, param) ==
    IF IsFieldDetector(data) THEN has_field_parameter(data, param)
    ELSE [val |-> param \in data.field_parameters, data |-> data]

\* hasattr(data, name)
hasattr(data, name) ==
    IF IsFieldDetector(data) THEN name \in DetectorAttrs
    ELSE name \in data.attrs

\* What a validator returns or raises, and the data object afterwards
Passes(data) == [ok |-> TRUE, exc |-> NoExc, data |-> data]

Fails(data, exc) == [ok |-> FALSE, exc |-> exc, data |-> data]

RECURSIVE ValidateParameter_call(_, _, _, _)
\* ValidateParameter.__call__ lines 559-561, h what has_field_parameter
\* returned for the i-th parameter
ValidateParameter_step(parameters, i, doesnt_have, h) ==
    ValidateParameter_call(parameters, i + 1, h.data,
        IF h.val THEN doesnt_have ELSE Append(doesnt_have, parameters[i]))

\* ValidateParameter.__call__ from the i-th parameter on
ValidateParameter_call(parameters, i, data, doesnt_have) ==
    IF i > Len(parameters)
    THEN IF Len(doesnt_have) > 0
         THEN Fails(data, NeedsParameter(doesnt_have))
         ELSE Passes(data)
    ELSE ValidateParameter_step(parameters, i, doesnt_have,
             ContextHasFieldParameter(data, parameters[i]))

\* A ValidateDataField that raises at the first field it misses
ValidateDataField_FirstOnly(fields, data) ==
    IF IsFieldDetector(data) THEN Passes(data)
    ELSE IF \E i \in 1 .. Len(fields) : fields[i] \notin data.field_list
    THEN Fails(data, NeedsDataField(
            <<fields[CHOOSE i \in 1 .. Len(fields) :
                        /\ fields[i] \notin data.field_list
                        /\ \A j \in 1 .. (i - 1) :
                              fields[j] \in data.field_list]>>))
    ELSE Passes(data)

\* ValidateDataField.__call__
ValidateDataField_call(fields, data) ==
    IF IsFieldDetector(data) THEN Passes(data)
    ELSE IF Len(SelectSeq(fields, LAMBDA f : f \notin data.field_list)) > 0
    THEN Fails(data, NeedsDataField(
                SelectSeq(fields, LAMBDA f : f \notin data.field_list)))
    ELSE Passes(data)

\* ValidateProperty.__call__
ValidateProperty_call(prop, data) ==
    IF Len(SelectSeq(prop, LAMBDA q : ~hasattr(data, q))) > 0
    THEN Fails(data, NeedsProperty(SelectSeq(prop, LAMBDA q : ~hasattr(data, q))))
    ELSE Passes(data)

\* A ValidateSpatial that only compares the ghost zones
ValidateSpatial_GhostZonesOnly(ghost_zones, fields, data) ==
    IF ghost_zones <= data.num_ghost_zones THEN Passes(data)
    ELSE Fails(data, NeedsGridType(ghost_zones, fields))

\* ValidateSpatial.__call__; spatial is getattr(data, '_spatial', False)
ValidateSpatial_call(ghost_zones, fields, data) ==
    IF ~data.spatial THEN Fails(data, NeedsGridType(ghost_zones, fields))
    ELSE IF ghost_zones <= data.num_ghost_zones THEN Passes(data)
    ELSE Fails(data, NeedsGridType(ghost_zones, fields))

\* A ValidateGridType without the test for a FieldDetector
ValidateGridType_NoDetectorTest(data) ==
    IF ~IsFieldDetector(data) /\ data.type_name = "grid" THEN Passes(data)
    ELSE Fails(data, NeedsOriginalGrid)

\* ValidateGridType.__call__; type_name is getattr(data, "_type_name", None)
ValidateGridType_call(data) ==
    IF IsFieldDetector(data) THEN Passes(data)
    ELSE IF data.type_name = "grid" THEN Passes(data)
    ELSE Fails(data, NeedsOriginalGrid)

\* A validator called on a data object: [ok, exc, data]
ValidatorCall(validator, data) ==
    CASE validator.v = "ValidateParameter" ->
           ValidateParameter_call(validator.names, 1, data, <<>>)
      [] validator.v = "ValidateDataField" ->
           ValidateDataField_call(validator.names, data)
      [] validator.v = "ValidateProperty" ->
           ValidateProperty_call(validator.names, data)
      [] validator.v = "ValidateSpatial" ->
           ValidateSpatial_call(validator.ghost_zones, validator.names, data)
      [] validator.v = "ValidateGridType" ->
           ValidateGridType_call(data)

\* DerivedField.check_available from validator i on: [ok, exc, called], called
\* the number of validators that were called
RECURSIVE check_available_from(_, _, _)
\* A variant of the loop that calls every validator and raises the last
\* failure
check_available_step_Last(validators, data, i, r) ==
    IF r.ok THEN check_available_from(validators, r.data, i + 1)
    ELSE IF check_available_from(validators, r.data, i + 1).ok
    THEN [ok |-> FALSE, exc |-> r.exc, called |-> i, data |-> r.data]
    ELSE check_available_from(validators, r.data, i + 1)

\* the loop of check_available after validator i returned or raised r
check_available_step(validators, data, i, r) ==
    IF r.ok THEN check_available_from(validators, r.data, i + 1)
    ELSE [ok |-> FALSE, exc |-> r.exc, called |-> i, data |-> r.data]

check_available_from(validators, data, i) ==
    IF i > Len(validators)
    THEN [ok |-> TRUE, exc |-> NoExc, called |-> i - 1, data |-> data]
    ELSE check_available_step(validators, data, i,
                              ValidatorCall(validators[i], data))

check_available(validators, data) == check_available_from(validators, data, 1)

(***************************************************************************)
(* FieldDetector.  An array is its shape; a FieldDetector is               *)
(*   [nd, pf, flat, spatial, num_ghost_zones, NumberOfParticles, store,        *)
(*    requested, requested_parameters]                                     *)
(* store being the dict part of the defaultdict.  pf is the attributes of   *)
(* the parameter file the model follows: [unit_registry], whether it has   *)
(* that attribute.  The model covers parameter files without a field_info  *)
(* attribute, for which __missing__ and _read_data resolve names in the    *)
(* module's FieldInfo (with one, they go through pf._get_field_info, which *)
(* these sources do not hold).                                             *)
(***************************************************************************)
\* pf = None: the fake_parameter_file of __init__, a defaultdict on which
\* __init__ sets no unit_registry attribute
FakePf == [unit_registry |-> FALSE]

\* a parameter file of the caller's that has a unit_registry
CallerPf == [unit_registry |-> TRUE]

DefaultNd == 16

Array(shape) == [shape |-> shape, none |-> FALSE]

\* YTArray(np.ones(shape), units, registry = ...)
YTArray(shape, units) == [shape |-> shape, none |-> FALSE, units |-> units]

\* The value of a closure that returns None
NoneValue == [shape |-> <<>>, none |-> TRUE]

\* FieldDetector(nd, pf = pf, flat = flat)
FieldDetector(nd, pf, flat) ==
    [nd |-> nd, pf |-> pf, flat |-> flat, spatial |-> ~flat, num_ghost_zones |-> 0,
     NumberOfParticles |-> 1, store |-> [x \in {} |-> NoneValue],
     requested |-> <<>>, requested_parameters |-> <<>>]

\* the default_factory of the defaultdict
default_factory(data) ==
    IF ~data.flat THEN Array(<<data.nd, data.nd, data.nd>>)
    ELSE Array(<<data.nd * data.nd * data.nd>>)

RECURSIVE Product(_)
Product(shape) ==
    IF shape = <<>> THEN 1 ELSE Head(shape) * Product(Tail(shape))

ravel(vv) == Array(<<Product(vv.shape)>>)

\* a[g:-g] of an axis of length n
SliceLen(n, g) == IF n >= 2 * g THEN n - 2 * g ELSE 0

\* vv[ngz:-ngz, ngz:-ngz, ngz:-ngz]
Trim(vv, ngz) == Array([i \in 1 .. 3 |-> SliceLen(vv.shape[i], ngz)])

\* A variant of the merge without the membership test
MergeLog_Concat(log, sub) == log \o sub

\* for i in sub: if i not in log: log.append(i)
RECURSIVE MergeLog(_, _)
MergeLog(log, sub) ==
    IF sub = <<>> THEN log
    ELSE MergeLog(IF Head(sub) \in Range(log) THEN log
                  ELSE Append(log, Head(sub)), Tail(sub))

\* FieldDetector.get_field_parameter: the data object afterwards
get_field_parameter(data, param) ==
    [data EXCEPT !.requested_parameters = Append(@, param)]

\* The names for which __missing__ builds an (N, 3) particle array
VectorNames == {"Coordinates", "Velocities", "Velocity"}

\* The outcome of a call on a data object: the data object and the event
\* history afterwards, and the value returned or the exception raised
Ret(data, ev, val) ==
    [data |-> data, ev |-> ev, ok |-> TRUE, val |-> val, exc |-> NoExc]

Raise(data, ev, exc) ==
    [data |-> data, ev |-> ev, ok |-> FALSE, val |-> NoneValue, exc |-> exc]

\* defaultdict.__missing__(self, field_name): the factory's value is stored
StoreDefault(data, field_name) ==
    [data EXCEPT !.store = DictSet(@, field_name, default_factory(data))]

\* FieldDetector._read_data from line 328 on, got the result of the lookup of
\* field_name in FieldInfo.  The arguments of YTArray(...) are evaluated left
\* to right: defaultdict.__missing__, then self.pf.unit_registry
read_data_finfo(data, ev, field_name, got) ==
    IF ~got.ok THEN Raise(data, ev, Exc("KeyError", 0, <<field_name>>))
    ELSE IF got.val.particle_type
    THEN Ret([data EXCEPT !.requested = Append(@, field_name)], ev,
             Array(<<data.NumberOfParticles>>))
    ELSE IF ~data.pf.unit_registry
    THEN Raise(StoreDefault(data, field_name), ev,
               Exc("AttributeError", 0, <<"unit_registry">>))
    ELSE Ret(StoreDefault(data, field_name), ev, default_factory(data))

\* FieldDetector._read_data(field_name)
read_data(data, ev, field_name) ==
    read_data_finfo([data EXCEPT !.requested = Append(@, field_name)], ev,
        field_name,
        FieldInfoContainer_getitem(regs, fallback, FieldInfo, field_name))

RECURSIVE FieldDetector_getitem(_, _, _, _)
RECURSIVE RunClosure(_, _, _, _, _, _)

\* DerivedField.__call__ lines 513-516, dd the outcome of the closure: the
\* keys that were not in original_fields are deleted and dd is returned; an
\* exception of the closure has left __call__ at line 509
call_cleanup(original_fields, dd) ==
    IF ~dd.ok THEN dd
    ELSE Ret([dd.data EXCEPT !.store = DictKeep(@, original_fields)],
             dd.ev, dd.val)

\* DerivedField.__call__ from line 507 on, ii the outcome of check_available
call_checked(finfo, ev, depth, ii) ==
    IF ~ii.ok THEN Raise(ii.data, ev, ii.exc)
    ELSE IF finfo.function.kind = "NullFunc"
    THEN Raise(ii.data, ev, Exc("RuntimeError", 0, <<>>))
    ELSE call_cleanup(DOMAIN ii.data.store,
            RunClosure(finfo.function, 1, ii.data,
                Append(ev, [t |-> "closure", f |-> finfo.name, depth |-> depth]),
                depth, NoneValue))

\* check_available, and the history entry of the validators it called
Validated(finfo, data, ev, depth, ii) ==
    call_checked(finfo,
        Append(ev, [t |-> "validate", f |-> finfo.name, called |-> ii.called,
                    depth |-> depth]),
        depth, ii)

\* DerivedField.__call__(data), data a FieldDetector at nesting depth depth
DerivedField_call(finfo, data, ev, depth) ==
    Validated(finfo, data, ev, depth, check_available(finfo.validators, data))

\* The closure after data[f] returned or raised r
RunClosure_read(function, i, depth, first, r) ==
    IF ~r.ok THEN r
    ELSE RunClosure(function, i + 1, r.data, r.ev, depth,
                    IF first.none THEN r.val ELSE first)

\* The closure from its i-th step on.  A closure returns an elementwise
\* combination of the fields it read, which has the first one's shape (an
\* array of the data object's shape if it read none), or None.
RunClosure(function, i, data, ev, depth, first) ==
    IF i > Len(function.ops)
    THEN Ret(data, ev,
             IF function.kind = "returns_None" THEN NoneValue
             ELSE IF first.none THEN Array(<<data.nd, data.nd, data.nd>>)
             ELSE first)
    ELSE IF function.ops[i][1] = "R"
    THEN Raise(data,
               Append(ev, [t |-> "raise", depth |-> depth,
                           exc |-> Exc(function.ops[i][2], 0, <<"Density">>)]),
               Exc(function.ops[i][2], 0, <<"Density">>))
    ELSE IF function.ops[i][1] = "P"
    THEN RunClosure(function, i + 1,
                    get_field_parameter(data, function.ops[i][2]),
                    ev, depth, first)
    ELSE RunClosure_read(function, i, depth, first,
            FieldDetector_getitem(data, ev, function.ops[i][2], depth))

\* A variant of the store that does not flatten
StoreResult_Unflattened(data, ev, item, vv) ==
    Ret([data EXCEPT !.store = DictSet(@, item, vv)], ev, vv)

\* self[item] = vv, or vv.ravel() on a flat FieldDetector; return self[item]
StoreResult(data, ev, item, vv) ==
    Ret([data EXCEPT !.store =
            DictSet(@, item, IF ~data.flat THEN vv ELSE ravel(vv))],
        ev, IF ~data.flat THEN vv ELSE ravel(vv))

\* self[item] = self._read_data(item); return self[item]
RawPath_store(item, r) ==
    IF ~r.ok THEN r
    ELSE Ret([r.data EXCEPT !.store = DictSet(@, item, r.val)], r.ev, r.val)

\* Lines 318-321: the placeholder of a raw field
RawPath(data, ev, item, depth) ==
    IF item \notin DOMAIN data.store
    THEN RawPath_store(item,
            read_data([data EXCEPT !.requested = Append(@, item)],
                      Append(ev, [t |-> "raw", f |-> item, depth |-> depth]),
                      item))
    ELSE Ret([data EXCEPT !.requested = Append(@, item)],
             Append(ev, [t |-> "raw", f |-> item, depth |-> depth]),
             data.store[item])

\* Lines 294-298: the logs of nfd merged into those of self
MergeLogs(self, nfd) ==
    [self EXCEPT !.requested = MergeLog(@, nfd.requested),
                 !.requested_parameters =
                     MergeLog(@, nfd.requested_parameters)]

\* The history entry of a merge
Merged(self, nfd, after, ev, f, depth, vv) ==
    Ret(after,
        Append(ev, [t |-> "merge", f |-> f, depth |-> depth, outer |-> self,
                    sub |-> nfd, after |-> after]),
        vv)

\* Lines 293-298, second the outcome of finfo(nfd)
Widen_finish(self, ngz, f, depth, second) ==
    IF ~second.ok THEN Raise(self, second.ev, second.exc)
    ELSE IF second.val.none /\ ngz > 0
    THEN Raise(self, second.ev, Exc("TypeError", 0, <<>>))
    ELSE IF ngz > 0 /\ Len(second.val.shape) # 3
    THEN Raise(self, second.ev, Exc("IndexError", 0, <<>>))
    ELSE Merged(self, second.data, MergeLogs(self, second.data), second.ev,
                f, depth,
                IF ngz > 0 THEN Trim(second.val, ngz) ELSE second.val)

\* A variant of the sub-probe that is widened by ngz cells in all, not by ngz
\* cells on each side
SubDetector_OneSided(self, ngz) ==
    [FieldDetector(self.nd + ngz, self.pf, FALSE)
        EXCEPT !.num_ghost_zones = ngz]

\* A variant of the sub-probe that is flat when self is
SubDetector_KeepsFlat(self, ngz) ==
    [FieldDetector(self.nd + ngz * 2, self.pf, self.flat)
        EXCEPT !.num_ghost_zones = ngz]

\* nfd = FieldDetector(self.nd + ngz * 2, pf = self.pf)
\* nfd._num_ghost_zones = ngz
SubDetector(self, ngz) ==
    [FieldDetector(self.nd + ngz * 2, self.pf, FALSE)
        EXCEPT !.num_ghost_zones = ngz]

\* Lines 292-298 on the sub-probe nfd
Widen_run(finfo, self, ev, exc, depth, nfd) ==
    Widen_finish(self, exc.ghost_zones, finfo.name, depth,
        DerivedField_call(finfo, nfd,
            Append(ev, [t |-> "sub", f |-> finfo.name, nd |-> nfd.nd,
                        num_ghost_zones |-> nfd.num_ghost_zones,
                        spatial |-> nfd.spatial, cause |-> exc,
                        depth |-> depth + 1]),
            depth + 1))

\* The except NeedsGridType branch, lines 289-298: self and ev are the
\* FieldDetector and the history as the failed call left them
WidenAndRetry(finfo, self, ev, exc, depth) ==
    Widen_run(finfo, self, ev, exc, depth,
              SubDetector(self, exc.ghost_zones))

\* Lines 286-298: vv = finfo(self), first its outcome
missing_try(finfo, depth, first) ==
    IF first.ok THEN first
    ELSE IF IsNeedsGridType(first.exc)
    THEN WidenAndRetry(finfo, first.data, first.ev, first.exc, depth)
    ELSE first

\* Lines 299-302, and the fall through to line 318 when vv is None
missing_store(item, depth, res) ==
    IF ~res.ok THEN res
    ELSE IF ~res.val.none THEN StoreResult(res.data, res.ev, item, res.val)
    ELSE RawPath(res.data, res.ev, item, depth)

\* Lines 304-315: np.ones((self.NumberOfParticles, 3)) for the names of a
\* vector, np.ones(self.NumberOfParticles) for the others, with finfo.units
ParticlePlaceholder(data, item, finfo) ==
    IF item \in VectorNames
    THEN YTArray(<<data.NumberOfParticles, 3>>, finfo.units)
    ELSE YTArray(<<data.NumberOfParticles>>, finfo.units)

\* Lines 308-317: the placeholder of a particle field
ParticlePath(data, ev, item, depth, v) ==
    IF ~data.pf.unit_registry
    THEN Raise(data, ev, Exc("AttributeError", 0, <<"unit_registry">>))
    ELSE Ret([data EXCEPT !.store = DictSet(@, item, v),
                          !.requested = Append(@, item)],
             Append(ev, [t |-> "raw", f |-> item, depth |-> depth]), v)

\* Lines 280-284: finfo = FI[item] if item in FI else None
FindFieldInfo(item) ==
    IF FieldInfoContainer_contains(regs, fallback, FieldInfo, item)
    THEN [known |-> TRUE,
          val |-> FieldInfoContainer_getitem(regs, fallback, FieldInfo, item).val]
    ELSE [known |-> FALSE, val |-> NoField]

\* A __missing__ that calls every DerivedField it finds, NullFunc or not
missing_finfo_NoSentinelTest(data, ev, item, depth, finfo) ==
    IF finfo.known
    THEN missing_store(item, depth,
            missing_try(finfo.val, depth,
                DerivedField_call(finfo.val, data, ev, depth)))
    ELSE RawPath(data, ev, item, depth)

\* FieldDetector.__missing__ from line 285 on
missing_finfo(data, ev, item, depth, finfo) ==
    IF finfo.known /\ finfo.val.function.kind # "NullFunc"
    THEN missing_store(item, depth,
            missing_try(finfo.val, depth,
                DerivedField_call(finfo.val, data, ev, depth)))
    ELSE IF finfo.known /\ finfo.val.particle_type
    THEN ParticlePath(data, ev, item, depth,
                      ParticlePlaceholder(data, item, finfo.val))
    ELSE RawPath(data, ev, item, depth)

\* FieldDetector.__missing__(item)
FieldDetector_missing(data, ev, item, depth) ==
    missing_finfo(data, ev, item, depth, FindFieldInfo(item))

\* data[item] on the defaultdict
FieldDetector_getitem(data, ev, item, depth) ==
    IF item \in DOMAIN data.store THEN Ret(data, ev, data.store[item])
    ELSE FieldDetector_missing(data, ev, item, depth)

\* A variant of get_dependencies without the test of the closure's name
get_dependencies_AlwaysRequests(finfo, nd, pf, flat) ==
    FieldDetector_getitem(FieldDetector(nd, pf, flat), <<>>, finfo.name, 0)

\* DerivedField.get_dependencies(nd, pf = pf, flat = flat)
get_dependencies(finfo, nd, pf, flat) ==
    IF finfo.function.kind = "lambda"
    THEN Ret([FieldDetector(nd, pf, flat) EXCEPT
                 !.requested = Append(@, finfo.name)], <<>>, NoneValue)
    ELSE FieldDetector_getitem(FieldDetector(nd, pf, flat), <<>>,
                               finfo.name, 0)

(***************************************************************************)
(* The registry operations as actions                                      *)
(***************************************************************************)
\* The closures add_field is handed in the registry specification
RegFunctions == {[kind |-> "def", ops |-> <<<<"F", "bar">>>>]}

NoProbe == [nd |-> 0]

NoLast == [op |-> "init"]

CreateWithFallback(fbk) ==
    /\ alive # RegIds
    /\ LET r == CHOOSE x \in RegIds \ alive : \A y \in RegIds \ alive : x <= y
       IN /\ fallback' = create_with_fallback(fallback, r, fbk)
          /\ alive' = alive \cup {r}
          /\ last' = [op |-> "create_with_fallback", r |-> r, fbk |-> fbk]
    /\ UNCHANGED <<regs, nextObj, replaced, latest, probe>>

AddField(r, name, function) ==
    /\ nextObj <= MaxObjs
    /\ regs' = add_field(regs, r, name, function, <<>>, FALSE, nextObj)
    /\ nextObj' = nextObj + 1
    /\ replaced' = replaced \cup
          (IF name \in DOMAIN regs[r] THEN {regs[r][name].oid} ELSE {})
    /\ latest' = [latest EXCEPT ![r][name] = nextObj]
    /\ last' = [op |-> "add_field", r |-> r, key |-> name,
                existed |-> name \in DOMAIN regs[r],
                keysBefore |-> DOMAIN regs[r], oid |-> nextObj]
    /\ UNCHANGED <<fallback, alive, probe>>

Lookup(r, key) ==
    LET res == FieldInfoContainer_getitem(regs, fallback, r, key)
    IN /\ regs' = res.regs
       /\ last' = [op |-> "lookup", r |-> r, key |-> key, ok |-> res.ok,
                   exc |-> res.exc, oid |-> res.val.oid]
       /\ UNCHANGED <<fallback, alive, nextObj, replaced, latest, probe>>

\* FieldInfo = FieldInfoContainer(), fallback = None
InitRegistry ==
    /\ regs = [r \in RegIds |-> EmptyDict]
    /\ fallback = [r \in RegIds |-> NoReg]
    /\ alive = {FieldInfo}
    /\ nextObj = 1
    /\ replaced = {}
    /\ latest = [r \in RegIds |-> [k \in RegKeys |-> 0]]
    /\ probe = NoProbe
    /\ last = NoLast

NextRegistry ==
    \/ \E fbk \in alive \cup {NoReg} : CreateWithFallback(fbk)
    \/ \E r \in alive, name \in RegKeys, function \in RegFunctions :
          AddField(r, name, function)
    \/ \E r \in alive, key \in RegKeys : Lookup(r, key)

SpecRegistry == InitRegistry /\ [][NextRegistry]_vars

(***************************************************************************)
(* Claims about FieldInfoContainer, checked under SpecRegistry             *)
(***************************************************************************)
\* The containers of r's fallback chain, r first
RECURSIVE ChainSeq(_)
ChainSeq(r) ==
    <<r>> \o (IF fallback[r] = NoReg THEN <<>> ELSE ChainSeq(fallback[r]))

Holders(r, k) == {i \in 1 .. Len(ChainSeq(r)) : k \in DOMAIN regs[ChainSeq(r)[i]]}

\* The nearest container of r's chain that holds k locally
Nearest(r, k) ==
    ChainSeq(r)[CHOOSE i \in Holders(r, k) : \A j \in Holders(r, k) : i <= j]

\* C6: for every container R and key k, `k in R` and R.has_key(k) are both
\* true exactly when k is a local key of R or is contained in R's fallback;
\* with no fallback, exactly when k is local.  Hence exactly when some
\* container of R's chain holds k.
C6_ContainsIffLocalOrFallback ==
    \A r \in alive, k \in RegKeys :
        LET c == FieldInfoContainer_contains(regs, fallback, r, k)
            viaFallback ==
                /\ fallback[r] # NoReg
                /\ FieldInfoContainer_contains(regs, fallback, fallback[r], k)
        IN /\ c = (k \in DOMAIN regs[r] \/ viaFallback)
           /\ c = (Holders(r, k) # {})
           /\ has_key(regs, fallback, r, k) = c

C6_Witness ==
    \E r \in alive, k \in RegKeys :
        /\ fallback[r] # NoReg /\ fallback[fallback[r]] # NoReg
        /\ k \notin DOMAIN regs[r] /\ k \notin DOMAIN regs[fallback[r]]
        /\ has_key(regs, fallback, r, k)
        /\ \E k2 \in RegKeys : ~FieldInfoContainer_contains(regs, fallback, r, k2)

\* C7: R[k] returns the DerivedField of the nearest container of R's chain
\* that holds k, raises KeyError exactly when no container of the chain
\* holds k, and in both cases leaves every container's dict as it was.
C7_LookupNearestOrKeyError ==
    /\ \A r \in alive, k \in RegKeys :
          LET res == FieldInfoContainer_getitem(regs, fallback, r, k)
          IN /\ res.ok = (Holders(r, k) # {})
             /\ res.ok => res.val = regs[Nearest(r, k)][k]
             /\ ~res.ok => res.exc = "KeyError"
             /\ res.regs = regs
    /\ last.op = "lookup" =>
          /\ last.ok = (Holders(last.r, last.key) # {})
          /\ last.ok => last.oid = regs[Nearest(last.r, last.key)][last.key].oid

C7_Witness ==
    /\ last.op = "lookup" /\ last.ok
    /\ last.key \notin DOMAIN regs[last.r]
    /\ \E k \in RegKeys :
          ~FieldInfoContainer_getitem(regs, fallback, last.r, k).ok

\* C8: a key held locally by R shadows the same key of R's fallback chain:
\* R[k] is the DerivedField of the most recent add_field of k on R itself.
C8_LocalShadowsFallback ==
    \A r \in alive, k \in RegKeys :
        k \in DOMAIN regs[r] =>
            /\ FieldInfoContainer_getitem(regs, fallback, r, k).ok
            /\ FieldInfoContainer_getitem(regs, fallback, r, k).val.oid
                   = latest[r][k]

C8_Witness ==
    \E r \in alive, k \in RegKeys :
        /\ fallback[r] # NoReg
        /\ k \in DOMAIN regs[r] /\ k \in DOMAIN regs[fallback[r]]
        /\ latest[fallback[r]][k] > latest[r][k]
        /\ FieldInfoContainer_getitem(regs, fallback, r, k).val.oid
               = latest[r][k]

\* C9: an add_field of a name the container already holds replaces the
\* entry: the local key set is unchanged, R[name] is the new DerivedField,
\* and no lookup on any container returns a DerivedField that was replaced.
C9_ReRegisterReplaces ==
    /\ (last.op = "add_field" /\ last.existed) =>
          /\ DOMAIN regs[last.r] = last.keysBefore
          /\ FieldInfoContainer_getitem(regs, fallback, last.r, last.key).val.oid
                 = last.oid
    /\ last.op = "add_field" =>
          DOMAIN regs[last.r] = last.keysBefore \cup {last.key}
    /\ \A r \in alive, k \in RegKeys :
          LET res == FieldInfoContainer_getitem(regs, fallback, r, k)
          IN res.ok => res.val.oid \notin replaced

C9_Witness ==
    /\ last.op = "add_field" /\ last.existed
    /\ replaced # {}
    /\ Cardinality(DOMAIN regs[last.r]) = 2

\* C10: iterating R yields each local key of R exactly once, then the whole
\* iteration of R's fallback; a key is yielded once per container of the
\* chain that holds it.
C10_IterLocalThenFallback ==
    \A r \in alive :
        LET it == FieldInfoContainer_iter(regs, fallback, r)
            n == Cardinality(DOMAIN regs[r])
            rest == IF fallback[r] = NoReg THEN <<>>
                    ELSE FieldInfoContainer_iter(regs, fallback, fallback[r])
        IN /\ Len(it) = n + Len(rest)
           /\ {it[i] : i \in 1 .. n} = DOMAIN regs[r]
           /\ \A i \in 1 .. Len(rest) : it[n + i] = rest[i]
           /\ \A k \in RegKeys :
                 Occurrences(it, k) = Cardinality(Holders(r, k))

C10_Witness ==
    \E r \in alive, k \in RegKeys :
        /\ fallback[r] # NoReg
        /\ Cardinality(DOMAIN regs[r]) = 2
        /\ Occurrences(FieldInfoContainer_iter(regs, fallback, r), k) = 2

(***************************************************************************)
(* Field detection: FieldInfo holds the raw fields bar and baz (NullFunc;   *)
(* baz under ValidateSpatial(1)), the raw particle field Velocities and    *)
(* the derived fields Y, which reads raw fields, and X, which reads Y.     *)
(* "nofield" is a name FieldInfo does not hold.                            *)
(***************************************************************************)
SpatialValidators == {ValidateSpatial(g, <<"bar">>) : g \in 0 .. MaxGhost}

\* dds is an attribute of a FieldDetector, particle_position is not
MissingProperty == ValidateProperty(<<"dds", "particle_position">>)

Def(ops) == [kind |-> "def", ops |-> ops]

\* Y as [function, validators]: a closure that reads bar under every list of
\* up to two ValidateSpatial, and the other closures without a validator and
\* under ValidateSpatial(1)
YChoices ==
    {<<Def(<<<<"F", "bar">>>>), vs>> :
        vs \in {<<>>, <<MissingProperty>>}
               \cup {<<v>> : v \in SpatialValidators}
               \cup {<<v, w>> : v, w \in SpatialValidators}}
    \cup {<<f, vs>> :
            f \in {Def(<<<<"P", "center">>, <<"F", "bar">>>>),
                   Def(<<<<"F", "bar">>, <<"F", "nofield">>>>),
                   Def(<<<<"F", "bar">>,
                         <<"R", "NeedsDataField">>>>),
                   Def(<<<<"R", "NeedsParameter">>>>),
                   [kind |-> "returns_None", ops |-> <<<<"F", "bar">>>>]},
            vs \in {<<>>, <<ValidateSpatial(1, <<"bar">>)>>}}

\* X as [function, validators]
XChoices ==
    {<<Def(<<<<"F", "bar">>, <<"F", "Y">>>>), vs>> :
        vs \in {<<>>, <<ValidateSpatial(1, <<"Y">>)>>, <<MissingProperty>>,
                <<ValidateSpatial(1, <<"Y">>), MissingProperty>>,
                <<MissingProperty, ValidateSpatial(1, <<"Y">>)>>}}
    \cup {<<Def(<<<<"F", "Y">>, <<"F", "baz">>>>),
            <<ValidateParameter(<<"center">>), ValidateDataField(<<"bar">>),
              ValidateGridType, ValidateSpatial(MaxGhost, <<"Y">>)>>>>,
          <<Def(<<<<"P", "center">>, <<"P", "center">>, <<"F", "Y">>>>), <<>>>>,
          <<[kind |-> "lambda", ops |-> <<<<"F", "Y">>>>], <<>>>>}

FieldNames == {"bar", "baz", "Velocities", "Y", "X", "nofield"}

ParameterNames == {"center"}

\* The FieldDetectors of the model, as <<nd, pf, flat>>
ProbeChoices ==
    {<<DefaultNd, CallerPf, FALSE>>, <<3, CallerPf, FALSE>>,
     <<3, CallerPf, TRUE>>, <<DefaultNd, FakePf, FALSE>>}

\* FieldInfo after the module's add_field calls
Catalogue(y, x) ==
    add_field(add_field(add_field(add_field(add_field(
        [r \in RegIds |-> EmptyDict],
        FieldInfo, "bar", NullFunc, <<>>, FALSE, 1),
        FieldInfo, "baz", NullFunc, <<ValidateSpatial(1, <<"baz">>)>>, FALSE, 2),
        FieldInfo, "Y", y[1], y[2], FALSE, 3),
        FieldInfo, "X", x[1], x[2], FALSE, 4),
        FieldInfo, "Velocities", NullFunc, <<>>, TRUE, 5)

LogsShort(data) ==
    Len(data.requested) + Len(data.requested_parameters) <= MaxLog

\* What an operation on the FieldDetector returned, and the FieldDetector it
\* was called on
Outcome(op, item, before, res) ==
    [op |-> op, item |-> item, before |-> before, ok |-> res.ok,
     val |-> res.val, exc |-> res.exc, ev |-> res.ev]

\* The caller after an operation: it holds the FieldDetector as the
\* operation left it; get_dependencies returns e only if nothing was raised
Returned(op, item, before, res) ==
    /\ probe' = IF op = "get_dependencies" /\ ~res.ok THEN NoProbe ELSE res.data
    /\ last' = Outcome(op, item, before, res)

\* e = FieldDetector(nd, pf = pf, flat = flat)
NewProbe(nd, pf, flat) ==
    /\ probe = NoProbe
    /\ probe' = FieldDetector(nd, pf, flat)
    /\ last' = [op |-> "FieldDetector", item |-> ""]
    /\ UNCHANGED regVars

\* e = finfo.get_dependencies(nd, pf = pf, flat = flat), finfo = FieldInfo[name]
GetDependencies(name, nd, pf, flat) ==
    /\ probe = NoProbe
    /\ Returned("get_dependencies", name, FieldDetector(nd, pf, flat),
                get_dependencies(regs[FieldInfo][name], nd, pf, flat))
    /\ UNCHANGED regVars

\* e[item]
Request(item) ==
    /\ probe # NoProbe
    /\ LogsShort(probe)
    /\ Returned("request", item, probe,
                FieldDetector_getitem(probe, <<>>, item, 0))
    /\ UNCHANGED regVars

\* FieldInfo[name](e)
Evaluate(name) ==
    /\ probe # NoProbe
    /\ LogsShort(probe)
    /\ Returned("evaluate", name, probe,
                DerivedField_call(regs[FieldInfo][name], probe, <<>>, 0))
    /\ UNCHANGED regVars

\* e.get_field_parameter(param)
GetFieldParameter(param) ==
    /\ probe # NoProbe
    /\ LogsShort(probe)
    /\ probe' = get_field_parameter(probe, param)
    /\ last' = [op |-> "get_field_parameter", item |-> param]
    /\ UNCHANGED regVars

InitProbe ==
    /\ \E y \in YChoices, x \in XChoices : regs = Catalogue(y, x)
    /\ fallback = [r \in RegIds |-> NoReg]
    /\ alive = {FieldInfo}
    /\ nextObj = 6
    /\ replaced = {}
    /\ latest = [r \in RegIds |-> [k \in RegKeys |-> 0]]
    /\ probe = NoProbe
    /\ last = NoLast

NextProbe ==
    \/ \E c \in ProbeChoices : NewProbe(c[1], c[2], c[3])
    \/ \E name \in {"X", "Y", "bar"}, c \in ProbeChoices :
          GetDependencies(name, c[1], c[2], c[3])
    \/ \E item \in FieldNames : Request(item)
    \/ \E name \in {"X", "Y", "bar", "baz"} : Evaluate(name)
    \/ \E param \in ParameterNames : GetFieldParameter(param)

SpecProbe == InitProbe /\ [][NextProbe]_vars

(***************************************************************************)
(* Properties of field detection, checked under SpecProbe.  last.ev is the *)
(* history of the last operation: "validate" after check_available of a    *)
(* DerivedField.__call__, "closure" when its closure is invoked, "raw"     *)
(* when a placeholder is read, "sub" when a sub-probe is built and "merge" *)
(* when its logs are merged.                                               *)
(***************************************************************************)
HasHistory == last.op \in {"get_dependencies", "request", "evaluate"}

\* The names of the placeholders the operation read, in the order of reading
RECURSIVE RawReads(_)
RawReads(ev) ==
    IF ev = <<>> THEN <<>>
    ELSE IF Head(ev).t = "raw" THEN <<Head(ev).f>> \o RawReads(Tail(ev))
    ELSE RawReads(Tail(ev))

\* s without the repetitions of its entries
FirstSeen(s) == SelectSeq([i \in 1 .. Len(s) |->
                              IF \E j \in 1 .. (i - 1) : s[j] = s[i]
                              THEN "" ELSE s[i]],
                          LAMBDA x : x # "")

FirstIndex(s, x) == CHOOSE i \in 1 .. Len(s) :
                        s[i] = x /\ \A j \in 1 .. (i - 1) : s[j] # x

\* C1: after get_dependencies probed a field with a named closure, the
\* request log of the probe it returns holds the raw fields that were read,
\* each once, in the order in which they were first read.
C1_RequestLogFirstSeenOnce ==
    (/\ last.op = "get_dependencies"
     /\ last.ok
     /\ regs[FieldInfo][last.item].function.kind # "lambda")
    => /\ NoDuplicates(probe.requested)
       /\ probe.requested = FirstSeen(RawReads(last.ev))

\* The key last.item was requested from a spatial FieldDetector without ghost
\* zones that did not hold it, and the first validator of its DerivedField is
\* ValidateSpatial(g)
C2_WideningCase(g) ==
    /\ last.op \in {"request", "get_dependencies"}
    /\ last.item \in DOMAIN regs[FieldInfo]
    /\ last.item \notin DOMAIN last.before.store
    /\ last.before.spatial
    /\ last.before.num_ghost_zones = 0
    /\ regs[FieldInfo][last.item].function.kind = "def"
    /\ Len(regs[FieldInfo][last.item].validators) > 0
    /\ regs[FieldInfo][last.item].validators[1].v = "ValidateSpatial"
    /\ regs[FieldInfo][last.item].validators[1].ghost_zones = g

SubProbesOf(item) ==
    {i \in 1 .. Len(last.ev) : last.ev[i].t = "sub" /\ last.ev[i].f = item}

\* C2: a request on a spatial probe of side N without ghost zones for a key
\* whose DerivedField demands ValidateSpatial(g), g > 0, builds exactly one
\* sub-probe for the key, of side N + 2g with g ghost zones, evaluates the
\* DerivedField again on it, and what it returns and stores has shape (N,N,N).
C2_SubProbeAndTrim ==
    \A g \in 1 .. MaxGhost :
        C2_WideningCase(g) =>
            /\ Cardinality(SubProbesOf(last.item)) = 1
            /\ \A i \in SubProbesOf(last.item) :
                  /\ last.ev[i].nd = last.before.nd + 2 * g
                  /\ last.ev[i].num_ghost_zones = g
                  /\ last.ev[i].depth = 1
                  /\ i < Len(last.ev)
                  /\ last.ev[i + 1].t = "validate"
                  /\ last.ev[i + 1].f = last.item
                  /\ last.ev[i + 1].depth = 1
            /\ last.ok =>
                  /\ last.val = Array(<<last.before.nd, last.before.nd,
                                        last.before.nd>>)
                  /\ last.item \in DOMAIN probe.store
                  /\ probe.store[last.item] = last.val

C2_Witness ==
    /\ C2_WideningCase(2)
    /\ last.ok
    /\ last.before.nd = DefaultNd
    /\ \E i \in SubProbesOf(last.item) : last.ev[i].nd = DefaultNd + 4
    /\ probe.store[last.item].shape = <<DefaultNd, DefaultNd, DefaultNd>>

\* The merges of the last operation
Merges == IF HasHistory
          THEN {last.ev[i] : i \in {j \in 1 .. Len(last.ev) :
                                       last.ev[j].t = "merge"}}
          ELSE {}

\* The entries the merge appended to the log outer
Appended(outer, after) == SubSeq(after, Len(outer) + 1, Len(after))

\* Every entry of sub is in after exactly once, what outer held keeps its
\* place, and the new entries follow in the order sub saw them first
MergedExactlyOnce(outer, sub, after) ==
    /\ \A x \in Range(sub) : Occurrences(after, x) = 1
    /\ Len(after) >= Len(outer)
    /\ SubSeq(after, 1, Len(outer)) = outer
    /\ Appended(outer, after) = FirstSeen(SelectSeq(sub,
                                    LAMBDA x : x \notin Range(outer)))

\* C3 as stated: after a widening retry every entry of the sub-probe's
\* request log and parameter log is in the outer probe's log exactly once,
\* the entries the outer log held keep their positions and the new ones are
\* appended in the sub-probe's first-seen order.
C3_MergedExactlyOnce ==
    \A m \in Merges :
        /\ MergedExactlyOnce(m.outer.requested, m.sub.requested,
                             m.after.requested)
        /\ MergedExactlyOnce(m.outer.requested_parameters,
                             m.sub.requested_parameters,
                             m.after.requested_parameters)

\* Every entry of sub is in after, what outer held keeps its place and its
\* repetitions, and each entry of sub that outer did not hold is appended once,
\* in the order sub saw them first
MergedWithoutNewDuplicates(outer, sub, after) ==
    /\ Range(sub) \subseteq Range(after)
    /\ Len(after) >= Len(outer)
    /\ SubSeq(after, 1, Len(outer)) = outer
    /\ NoDuplicates(Appended(outer, after))
    /\ Range(Appended(outer, after)) = Range(sub) \ Range(outer)
    /\ \A i, j \in 1 .. Len(Appended(outer, after)) :
          i < j => FirstIndex(sub, Appended(outer, after)[i])
                   < FirstIndex(sub, Appended(outer, after)[j])

\* C3 amended: after a widening retry every entry of the sub-probe's request
\* log and parameter log is in the outer probe's log; the entries the outer
\* log held keep their positions and their repetitions, and each entry the
\* outer log did not hold is appended exactly once, in the sub-probe's
\* first-seen order.
C3_MergeAddsEachNewEntryOnce ==
    \A m \in Merges :
        /\ MergedWithoutNewDuplicates(m.outer.requested, m.sub.requested,
                                      m.after.requested)
        /\ MergedWithoutNewDuplicates(m.outer.requested_parameters,
                                      m.sub.requested_parameters,
                                      m.after.requested_parameters)

C3_Witness ==
    \E m \in Merges :
        /\ Range(m.sub.requested) \cap Range(m.outer.requested) # {}
        /\ ~NoDuplicates(m.sub.requested)
        /\ Len(m.after.requested_parameters)
               > Len(m.outer.requested_parameters)
        /\ last.ok

\* C4: a call of a DerivedField on a data object leaves the data object with
\* the keys it had before the call, whatever the outcome of the call.
C4_EvaluateKeepsKeySet ==
    last.op = "evaluate" => DOMAIN probe.store = DOMAIN last.before.store

\* The validators of the DerivedField last.item that fail on the data object
\* the last operation was called on
Failing ==
    {i \in 1 .. Len(regs[FieldInfo][last.item].validators) :
        ~ValidatorCall(regs[FieldInfo][last.item].validators[i],
                       last.before).ok}

FirstFailing == CHOOSE i \in Failing : \A j \in Failing : i <= j

\* C5: a call of a DerivedField runs its validators in the order of the list
\* and stops at the first that fails: its exception is the one raised, no
\* later validator is called, the closure is not invoked and the data object
\* is unchanged.
C5_FirstFailingValidatorStops ==
    (last.op = "evaluate" /\ Failing # {})
    => /\ ~last.ok
       /\ last.exc = ValidatorCall(
              regs[FieldInfo][last.item].validators[FirstFailing],
              last.before).exc
       /\ last.ev = <<[t |-> "validate", f |-> last.item,
                       called |-> FirstFailing, depth |-> 0]>>
       /\ probe = last.before

C5_Witness ==
    /\ last.op = "evaluate"
    /\ Cardinality(Failing) = 2
    /\ FirstFailing = 1
    /\ last.exc.type = "NeedsProperty"
    /\ ValidatorCall(regs[FieldInfo][last.item].validators[2],
                     last.before).exc.type = "NeedsGridType"

\* The signals that are not remedied by a wider sub-probe
Unremedied == {"NeedsDataField", "NeedsProperty", "NeedsParameter"}

\* What the k-th validator of field f raises when it is a ValidateProperty:
\* every declared name that is not an attribute of a FieldDetector
PropertySignal(f, k) ==
    Exc("NeedsProperty", 0,
        SelectSeq(regs[FieldInfo][f].validators[k].names,
                  LAMBDA q : q \notin DetectorAttrs))

\* The last entry of the history is the signal exc as it was raised: by the
\* k-th validator of a field, or by a closure
RaisedLast(ev, exc) ==
    /\ ev # <<>>
    /\ \/ /\ ev[Len(ev)].t = "validate"
          /\ ev[Len(ev)].called \in
                 1 .. Len(regs[FieldInfo][ev[Len(ev)].f].validators)
          /\ regs[FieldInfo][ev[Len(ev)].f].validators[ev[Len(ev)].called].v
                 = "ValidateProperty"
          /\ exc = PropertySignal(ev[Len(ev)].f, ev[Len(ev)].called)
       \/ /\ ev[Len(ev)].t = "raise"
          /\ exc = ev[Len(ev)].exc

\* C11: a sub-probe is built only for a NeedsGridType; when an operation on a
\* probe ends with NeedsDataField, NeedsProperty or NeedsParameter, raised by
\* the field's validators or closure or by a nested request, nothing happened
\* after the signal was raised (no sub-probe, no merge) and the caller gets
\* the signal with the list of names it was raised with.
C11_OnlyNeedsGridTypeWidens ==
    HasHistory =>
        /\ \A i \in 1 .. Len(last.ev) :
              last.ev[i].t = "sub" =>
                  last.ev[i].cause.type \in {"NeedsGridType", "NeedsOriginalGrid"}
        /\ (~last.ok /\ last.exc.type \in Unremedied)
               => RaisedLast(last.ev, last.exc)

C11_Witness ==
    /\ HasHistory
    /\ ~last.ok
    /\ last.exc.type \in Unremedied
    /\ last.item = "X"
    /\ last.ev[Len(last.ev)].depth = 1
    /\ \E i \in 1 .. Len(last.ev) : last.ev[i].t = "sub"

\* The fields of FieldInfo that the closure of field f reads
Reads(f) ==
    IF f \notin DOMAIN regs[FieldInfo] THEN {}
    ELSE {regs[FieldInfo][f].function.ops[i][2] :
             i \in {j \in 1 .. Len(regs[FieldInfo][f].function.ops) :
                       regs[FieldInfo][f].function.ops[j][1] = "F"}}

\* The dependency chain of f: f and what it reads, directly or through the
\* fields it reads
RECURSIVE ChainFrom(_, _)
ChainFrom(fs, n) ==
    IF n = 0 THEN fs
    ELSE ChainFrom(fs \cup UNION {Reads(f) : f \in fs}, n - 1)

DependencyChain(f) == ChainFrom({f}, Cardinality(DOMAIN regs[FieldInfo]))

\* The ghost zones the ValidateSpatial validators of field h ask for
SpatialDemands(h) ==
    {regs[FieldInfo][h].validators[i].ghost_zones :
        i \in {j \in 1 .. Len(regs[FieldInfo][h].validators) :
                  regs[FieldInfo][h].validators[j].v = "ValidateSpatial"}}

\* The largest ghost-zone requirement in the dependency chain of f
MaxGhostOf(f) ==
    LET gs == {0} \cup UNION {SpatialDemands(h) :
                   h \in DependencyChain(f) \cap DOMAIN regs[FieldInfo]}
    IN CHOOSE g \in gs : \A h \in gs : h <= g

\* The depth of the deepest sub-probe the last operation built
SubDepth ==
    LET ds == {0} \cup {last.ev[i].depth :
                   i \in {j \in 1 .. Len(last.ev) : last.ev[j].t = "sub"}}
    IN CHOOSE d \in ds : \A e \in ds : e <= d

\* C12 as stated: the depth of nested sub-probes built while a key is
\* resolved on a probe, spatial or flat, never exceeds the largest ghost-zone
\* requirement of the fields in the key's dependency chain.
C12_DepthWithinLargestGhostZones ==
    (HasHistory /\ last.item \in DOMAIN regs[FieldInfo])
    => SubDepth <= MaxGhostOf(last.item)

\* C12 amended: on a spatial probe the depth of nested sub-probes never
\* exceeds the largest ghost-zone requirement of the fields in the key's
\* dependency chain; on a flat probe it never exceeds that requirement plus
\* one, the first sub-probe being built for any ValidateSpatial at all.
C12_DepthWithinGhostZonesPlusFlat ==
    (HasHistory /\ last.item \in DOMAIN regs[FieldInfo])
    => SubDepth <= MaxGhostOf(last.item)
                   + (IF last.before.spatial THEN 0 ELSE 1)

C12_Witness ==
    /\ HasHistory
    /\ last.item = "X"
    /\ last.before.spatial
    /\ last.ok
    /\ SubDepth = 2
    /\ MaxGhostOf("X") = 2

(***************************************************************************)
(* The fallback walk step by step.  fallback is a plain attribute, so a    *)
(* caller can make two containers each other's fallback.  self[key] and    *)
(* `key in self` call __missing__ / __contains__ of the fallback, one      *)
(* interpreter frame per container visited; the interpreter raises         *)
(* RuntimeError("maximum recursion depth exceeded") in the frame that      *)
(* passes its recursion limit.                                             *)
(***************************************************************************)
\* The interpreter's recursion limit, in frames of the walk
RecursionLimit == 6

\* The two containers of this specification
CycleRegs == {FieldInfo, FieldInfo + 1}

WalkKinds == {"getitem", "contains"}

WalkIdle == IF last.op = "walk" THEN last.state # "running" ELSE TRUE

\* obj.fallback = fbk
SetFallback(r, fbk) ==
    /\ WalkIdle
    /\ fallback[r] # fbk
    /\ fallback' = [fallback EXCEPT ![r] = fbk]
    /\ last' = [op |-> "set_fallback", r |-> r, fbk |-> fbk]
    /\ UNCHANGED <<regs, alive, nextObj, replaced, latest, probe>>

\* obj.add_field(name, function)
CycleAddField(r, name, function) == WalkIdle /\ AddField(r, name, function)

\* obj[key] or `key in obj` is called: the first frame, on obj itself
StartWalk(kind, r, key) ==
    /\ WalkIdle
    /\ last' = [op |-> "walk", kind |-> kind, r |-> r, key |-> key, at |-> r,
                frames |-> 1, visited |-> <<r>>, state |-> "running",
                exc |-> NoExc, found |-> FALSE]
    /\ UNCHANGED <<regVars, probe>>

\* The frame on container last.at: dict.__getitem__ / dict.__contains__ finds
\* the key, or __missing__ / __contains__ ends the walk when fallback is None,
\* or calls self.fallback[key] / key in self.fallback
WalkStep ==
    /\ last.op = "walk"
    /\ last.state = "running"
    /\ last' =
          IF last.key \in DOMAIN regs[last.at]
          THEN [last EXCEPT !.state = "returned", !.found = TRUE]
          ELSE IF fallback[last.at] = NoReg
          THEN IF last.kind = "getitem"
               THEN [last EXCEPT !.state = "raised",
                                 !.exc = Exc("KeyError", 0, <<last.key>>)]
               ELSE [last EXCEPT !.state = "returned", !.found = FALSE]
          ELSE IF last.frames >= RecursionLimit
          THEN [last EXCEPT !.state = "raised",
                   !.exc = Exc("RuntimeError", 0,
                               <<"maximum recursion depth exceeded">>)]
          ELSE [last EXCEPT !.at = fallback[last.at], !.frames = @ + 1,
                            !.visited = Append(@, fallback[last.at])]
    /\ UNCHANGED <<regVars, probe>>

\* a = FieldInfoContainer(); b = FieldInfoContainer.create_with_fallback(a)
InitCycle ==
    /\ regs = [r \in RegIds |-> EmptyDict]
    /\ fallback = [r \in RegIds |-> IF r = FieldInfo + 1 THEN FieldInfo ELSE NoReg]
    /\ alive = CycleRegs
    /\ nextObj = 1
    /\ replaced = {}
    /\ latest = [r \in RegIds |-> [k \in RegKeys |-> 0]]
    /\ probe = NoProbe
    /\ last = NoLast

NextCycle ==
    \/ \E r \in CycleRegs, fbk \in CycleRegs \cup {NoReg} : SetFallback(r, fbk)
    \/ \E r \in CycleRegs, name \in RegKeys, function \in RegFunctions :
          CycleAddField(r, name, function)
    \/ \E kind \in WalkKinds, r \in CycleRegs, key \in RegKeys :
          StartWalk(kind, r, key)
    \/ WalkStep

SpecCycle == InitCycle /\ [][NextCycle]_vars

\* Two containers are each other's fallback
MutualFallback(a, b) == a # b /\ fallback[a] = b /\ fallback[b] = a

\* C13: when two registries are each other's fallback, a lookup or a
\* containment test of a key that neither holds locally is a bounded walk,
\* which visits no registry twice, and ends by raising the RuntimeError of a
\* configuration error; it does not return and does not raise KeyError.
C13_FallbackCycleIsConfigurationError ==
    (/\ last.op = "walk"
     /\ \E b \in CycleRegs : MutualFallback(last.r, b)
     /\ \A r \in CycleRegs : last.key \notin DOMAIN regs[r])
    => /\ NoDuplicates(last.visited)
       /\ last.state # "running" =>
             (last.state = "raised" /\ last.exc.type = "RuntimeError")

(***************************************************************************)
(* FieldInfoContainer.add_grad                                             *)
(***************************************************************************)
\* name = "Grad_%s_%s" % (field, ax)
GradAxName(field, ax) == "Grad_" \o field \o "_" \o ax

\* name = "Grad_%s" % field
GradName(field) == "Grad_" \o field

\* _gradx, _grady, _gradz: data[field] twice for the difference, data["d" + ax],
\* data[field] for the shape of the result
GradAxFunc(field, ax) ==
    Def(<<<<"F", field>>, <<"F", field>>, <<"F", "d" \o ax>>, <<"F", field>>>>)

\* _grad: the three partial derivatives
GradFunc(field) ==
    Def(<<<<"F", GradAxName(field, "x")>>, <<"F", GradAxName(field, "y")>>,
          <<"F", GradAxName(field, "z")>>>>)

\* A variant of the loop of add_grad that gives the partial derivatives no
\* validator
add_grad_partials_NoValidator(rs, r, field, oid) ==
    add_field(add_field(add_field(rs,
        r, GradAxName(field, "x"), GradAxFunc(field, "x"), <<>>, FALSE, oid),
        r, GradAxName(field, "y"), GradAxFunc(field, "y"), <<>>, FALSE, oid + 1),
        r, GradAxName(field, "z"), GradAxFunc(field, "z"), <<>>, FALSE, oid + 2)

\* The loop of add_grad, lines 86-95: self[name] = DerivedField(name, ...,
\* validators = [ValidateSpatial(1, [field])]) for ax in "xyz"
add_grad_partials(rs, r, field, oid) ==
    add_field(add_field(add_field(rs,
        r, GradAxName(field, "x"), GradAxFunc(field, "x"),
           <<ValidateSpatial(1, <<field>>)>>, FALSE, oid),
        r, GradAxName(field, "y"), GradAxFunc(field, "y"),
           <<ValidateSpatial(1, <<field>>)>>, FALSE, oid + 1),
        r, GradAxName(field, "z"), GradAxFunc(field, "z"),
           <<ValidateSpatial(1, <<field>>)>>, FALSE, oid + 2)

\* add_grad without the field of the norm
add_grad_PartialsOnly(rs, r, field, oid) == add_grad_partials(rs, r, field, oid)

\* FieldInfoContainer.add_grad(field): the three partial derivatives, then
\* self["Grad_%s" % field] = DerivedField(name, function = _grad, ...)
add_grad(rs, r, field, oid) ==
    add_field(add_grad_partials(rs, r, field, oid),
              r, GradName(field), GradFunc(field), <<>>, FALSE, oid + 3)

\* The DerivedFields the add_field and add_grad calls of this specification
\* may create
MaxGradObjs == 6

\* The names add_field is called with in this specification
GradKeys == {"Density", "Grad_Density_x", "Grad_Density"}

\* obj.add_field(name, function)
GradAddField(r, name, function) ==
    /\ nextObj <= MaxGradObjs
    /\ regs' = add_field(regs, r, name, function, <<>>, FALSE, nextObj)
    /\ nextObj' = nextObj + 1
    /\ last' = [op |-> "add_field", r |-> r, key |-> name]
    /\ UNCHANGED <<fallback, alive, replaced, latest, probe>>

\* obj.add_grad(field)
AddGrad(r, field) ==
    /\ nextObj <= MaxGradObjs
    /\ regs' = add_grad(regs, r, field, nextObj)
    /\ nextObj' = nextObj + 4
    /\ last' = [op |-> "add_grad", r |-> r, field |-> field, before |-> regs,
                oid |-> nextObj]
    /\ UNCHANGED <<fallback, alive, replaced, latest, probe>>

NextGrad ==
    \/ \E r \in CycleRegs, name \in GradKeys, function \in RegFunctions :
          GradAddField(r, name, function)
    \/ \E r \in CycleRegs, field \in RegKeys : AddGrad(r, field)

\* a = FieldInfoContainer(); b = FieldInfoContainer.create_with_fallback(a)
SpecGrad == InitCycle /\ [][NextGrad]_vars

\* The four names add_grad derives from a field name
GradNamesOf ==
    [Density |-> {"Grad_Density_x", "Grad_Density_y", "Grad_Density_z",
                  "Grad_Density"},
     Temperature |-> {"Grad_Temperature_x", "Grad_Temperature_y",
                      "Grad_Temperature_z", "Grad_Temperature"}]

ParameterPool == {"center", "axis"}

FieldPool == {"Density", "Temperature"}

AttrPool == {"dds", "particle_position"}

Contexts ==
    [type_name : {"grid", "covering_grid", ""}, spatial : BOOLEAN,
     num_ghost_zones : 0 .. MaxGhost, field_parameters : SUBSET ParameterPool,
     field_list : SUBSET FieldPool, attrs : SUBSET AttrPool]

\* The FieldDetectors of this specification: those a caller builds and the
\* sub-probes __missing__ builds of them
Detectors ==
    {FieldDetector(c[1], c[2], c[3]) : c \in ProbeChoices}
    \cup {SubDetector(FieldDetector(DefaultNd, CallerPf, FALSE), g) :
             g \in 1 .. MaxGhost}

\* Lists of declared names: a and b in both orders, and with c before and
\* between them
NameLists(a, b, c) ==
    {<<a>>, <<b>>, <<a, b>>, <<b, a>>, <<c, a, b>>, <<a, c, b>>}

ValidatorChoices ==
    {ValidateParameter(l) : l \in NameLists("center", "axis", "normal")}
    \cup {ValidateDataField(l) :
             l \in NameLists("Density", "Temperature", "Pressure")}
    \cup {ValidateProperty(l) :
             l \in NameLists("dds", "particle_position", "hierarchy")}
    \cup {ValidateSpatial(g, <<"bar">>) : g \in 0 .. (MaxGhost + 1)}
    \cup {ValidateGridType}

\* The YTArray of get_field_parameter: three random numbers (draw says which)
\* in the units fp_units gives the parameter
fp_units == [bulk_velocity |-> "cm/s", center |-> "cm", normal |-> ""]

\* A get_field_parameter that returns the caller's default for a name it has
\* no canned value for
FieldParameterValue_UsesDefault(param, default, draw) ==
    IF param \in {"bulk_velocity", "center", "normal"}
    THEN [kind |-> "YTArray", shape |-> <<3>>, units |-> fp_units[param],
          draw |-> draw]
    ELSE IF param \in {"axis"} THEN [kind |-> "int", value |-> 0]
    ELSE IF default # "None" THEN [kind |-> "default", value |-> 0]
    ELSE [kind |-> "float", value |-> 0]

\* What FieldDetector.get_field_parameter(param, default) returns
FieldParameterValue(param, default, draw) ==
    IF param \in {"bulk_velocity", "center", "normal"}
    THEN [kind |-> "YTArray", shape |-> <<3>>, units |-> fp_units[param],
          draw |-> draw]
    ELSE IF param \in {"axis"} THEN [kind |-> "int", value |-> 0]
    ELSE [kind |-> "float", value |-> 0]

RequestedParameters == {"bulk_velocity", "center", "normal", "axis", "alpha"}

\* default = None, or a value of the caller's
DefaultChoices == {"None", "given"}

\* The random numbers np.random.random(3) may draw, as the model tells them
\* apart
Draws == {1, 2}

\* The caller holds a data object
NewContext(c) ==
    /\ probe = NoProbe
    /\ probe' = c
    /\ last' = [op |-> "context", item |-> ""]
    /\ UNCHANGED regVars

\* What the caller sees of a validator call
ValidatorReturned(validator, before, res) ==
    /\ probe' = res.data
    /\ last' = [op |-> "validator", validator |-> validator,
                before |-> before, ok |-> res.ok, exc |-> res.exc]

\* validator(data)
Validate(validator) ==
    /\ probe # NoProbe
    /\ ValidatorReturned(validator, probe, ValidatorCall(validator, probe))
    /\ UNCHANGED regVars

\* What the caller sees of data.has_field_parameter(param)
HasFieldParameterReturned(param, before, h) ==
    /\ probe' = h.data
    /\ last' = [op |-> "has_field_parameter", item |-> param,
                before |-> before, val |-> h.val]

\* data.has_field_parameter(param) on a FieldDetector
HasFieldParameter(param) ==
    /\ probe # NoProbe
    /\ IsFieldDetector(probe)
    /\ HasFieldParameterReturned(param, probe, has_field_parameter(probe, param))
    /\ UNCHANGED regVars

\* data.get_field_parameter(param, default) on a FieldDetector
RequestParameter(param, default, draw) ==
    /\ probe # NoProbe
    /\ IsFieldDetector(probe)
    /\ LogsShort(probe)
    /\ probe' = get_field_parameter(probe, param)
    /\ last' = [op |-> "get_field_parameter", item |-> param,
                default |-> default, before |-> probe,
                val |-> FieldParameterValue(param, default, draw)]
    /\ UNCHANGED regVars

InitValidate ==
    /\ regs = [r \in RegIds |-> EmptyDict]
    /\ fallback = [r \in RegIds |-> NoReg]
    /\ alive = {FieldInfo}
    /\ nextObj = 1
    /\ replaced = {}
    /\ latest = [r \in RegIds |-> [k \in RegKeys |-> 0]]
    /\ probe = NoProbe
    /\ last = NoLast

NextValidate ==
    \/ \E c \in Contexts \cup Detectors : NewContext(c)
    \/ \E validator \in ValidatorChoices : Validate(validator)
    \/ \E param \in RequestedParameters : HasFieldParameter(param)
    \/ \E param \in RequestedParameters, default \in DefaultChoices,
          draw \in Draws : RequestParameter(param, default, draw)

SpecValidate == InitValidate /\ [][NextValidate]_vars

(***************************************************************************)
(* Properties of the validators and of the parameter requests, checked     *)
(* under SpecValidate                                                      *)
(***************************************************************************)
\* Whether the name q that validator kind v declares is unavailable in data
Unavailable(v, q, data) ==
    CASE v = "ValidateParameter" ->
           ~IsFieldDetector(data) /\ q \notin data.field_parameters
      [] v = "ValidateDataField" -> q \notin data.field_list
      [] v = "ValidateProperty" ->
           IF IsFieldDetector(data) THEN q \notin DetectorAttrs
           ELSE q \notin data.attrs

\* The declared names that are unavailable, in declared order
MissingNames(validator, data) ==
    SelectSeq(validator.names, LAMBDA q : Unavailable(validator.v, q, data))

SignalOf == [ValidateParameter |-> "NeedsParameter",
             ValidateDataField |-> "NeedsDataField",
             ValidateProperty |-> "NeedsProperty"]

\* C15: ValidateParameter, ValidateDataField on a data object that is no
\* FieldDetector, and ValidateProperty raise exactly when a declared name is
\* unavailable; the exception carries all the unavailable declared names, in
\* declared order; otherwise they return True; the data object is unchanged.
C15_PresenceValidatorsListAllMissing ==
    (/\ last.op = "validator"
     /\ \/ last.validator.v \in {"ValidateParameter", "ValidateProperty"}
        \/ /\ last.validator.v = "ValidateDataField"
           /\ ~IsFieldDetector(last.before))
    => /\ last.ok <=> MissingNames(last.validator, last.before) = <<>>
       /\ ~last.ok =>
             last.exc = Exc(SignalOf[last.validator.v], 0,
                            MissingNames(last.validator, last.before))
       /\ last.ok => last.exc = NoExc
       /\ probe = last.before

C15_Witness ==
    /\ last.op = "validator"
    /\ last.validator.v = "ValidateDataField"
    /\ ~IsFieldDetector(last.before)
    /\ Len(last.validator.names) = 3
    /\ ~last.ok
    /\ Len(last.exc.names) = 2
    /\ last.exc.names[2] = last.validator.names[2]

\* C16: ValidateSpatial(g, fields) returns True exactly when the data object
\* is spatial and has at least g ghost zones; otherwise, also on a flat
\* FieldDetector with g = 0, it raises NeedsGridType with the g and the
\* fields it was built with.
C16_SpatialIffSpatialAndGhostZones ==
    (last.op = "validator" /\ last.validator.v = "ValidateSpatial")
    => /\ last.ok <=> (/\ last.before.spatial
                       /\ last.before.num_ghost_zones
                             >= last.validator.ghost_zones)
       /\ ~last.ok =>
             last.exc = Exc("NeedsGridType", last.validator.ghost_zones,
                            last.validator.names)
       /\ probe = last.before

C16_Witness ==
    /\ last.op = "validator"
    /\ last.validator.v = "ValidateSpatial"
    /\ last.validator.ghost_zones = 0
    /\ IsFieldDetector(last.before)
    /\ last.before.flat
    /\ ~last.ok
    /\ last.exc.ghost_zones = 0

\* C17: on a FieldDetector ValidateDataField and ValidateGridType return True
\* whatever names are declared; on any other data object ValidateGridType
\* returns True exactly when its _type_name is 'grid' and raises
\* NeedsOriginalGrid otherwise.
C17_DetectorSkipsDataFieldAndGridType ==
    (/\ last.op = "validator"
     /\ last.validator.v \in {"ValidateDataField", "ValidateGridType"})
    => /\ IsFieldDetector(last.before) => last.ok
       /\ (~IsFieldDetector(last.before)
           /\ last.validator.v = "ValidateGridType")
          => /\ last.ok <=> last.before.type_name = "grid"
             /\ ~last.ok => last.exc = Exc("NeedsOriginalGrid", 0, <<>>)
       /\ probe = last.before

C17_Witness ==
    /\ last.op = "validator"
    /\ last.validator.v = "ValidateDataField"
    /\ IsFieldDetector(last.before)
    /\ last.validator.names[1] = "Pressure"
    /\ last.ok

\* C18: a FieldDetector answers True to has_field_parameter for every name,
\* so ValidateParameter returns True on a FieldDetector whatever names it
\* declares, and neither adds an entry to requested_parameters.
C18_DetectorHasEveryParameter ==
    /\ last.op = "has_field_parameter"
          => (last.val = TRUE /\ probe = last.before)
    /\ (/\ last.op = "validator"
        /\ last.validator.v = "ValidateParameter"
        /\ IsFieldDetector(last.before))
       => (last.ok /\ probe = last.before)

C18_Witness ==
    /\ last.op = "validator"
    /\ last.validator.v = "ValidateParameter"
    /\ IsFieldDetector(last.before)
    /\ Len(last.validator.names) = 3
    /\ last.before.requested_parameters # <<>>
    /\ last.validator.names[1] \notin Range(last.before.requested_parameters)
    /\ last.ok

\* C19: get_field_parameter on a FieldDetector appends the name to
\* requested_parameters at every request and changes nothing else, the
\* request log of fields included; it returns three numbers for
\* bulk_velocity, center and normal, the integer 0 for axis and the float 0.0
\* for every other name, whatever default the caller passed.
C19_ParameterRequestLoggedCannedValue ==
    last.op = "get_field_parameter" =>
        /\ probe = [last.before EXCEPT !.requested_parameters =
                                           Append(@, last.item)]
        /\ probe.requested = last.before.requested
        /\ last.item \in {"bulk_velocity", "center", "normal"}
              => (last.val.kind = "YTArray" /\ last.val.shape = <<3>>)
        /\ last.item = "axis" => last.val = [kind |-> "int", value |-> 0]
        /\ last.item \notin {"bulk_velocity", "center", "normal", "axis"}
              => last.val = [kind |-> "float", value |-> 0]

C19_Witness ==
    /\ last.op = "get_field_parameter"
    /\ last.item = "alpha"
    /\ last.default = "given"
    /\ Occurrences(probe.requested_parameters, "alpha") = 2

(***************************************************************************)
(* The no-op sentinel, checked under SpecProbe                             *)
(***************************************************************************)
IsSentinel(f) ==
    f \in DOMAIN regs[FieldInfo] /\ regs[FieldInfo][f].function.kind = "NullFunc"

\* C20 as stated: a call of a DerivedField whose closure is NullFunc never
\* returns: it raises RuntimeError.
C20_SentinelCallRaisesRuntimeError ==
    (last.op = "evaluate" /\ IsSentinel(last.item))
    => (~last.ok /\ last.exc.type = "RuntimeError")

\* The entries of the history in which a DerivedField with the NullFunc
\* closure is called
SentinelCalls ==
    {i \in 1 .. Len(last.ev) :
        last.ev[i].t \in {"validate", "closure"} /\ IsSentinel(last.ev[i].f)}

\* C20 amended: a call of a DerivedField whose closure is NullFunc never
\* returns: it raises the exception of its first failing validator, and
\* RuntimeError when every validator passes.  A FieldDetector that resolves a
\* key whose DerivedField has the NullFunc closure does not call it, validators
\* included, and goes on to build the particle or raw placeholder (which
\* raises AttributeError when the parameter file has no unit_registry), so a
\* request never raises RuntimeError.
C20_SentinelNeverCalledByDetector ==
    /\ (last.op = "evaluate" /\ IsSentinel(last.item))
       => /\ ~last.ok
          /\ Failing = {} => last.exc.type = "RuntimeError"
          /\ Failing # {} =>
                last.exc = ValidatorCall(
                    regs[FieldInfo][last.item].validators[FirstFailing],
                    last.before).exc
          /\ SentinelCalls = {1}
    /\ (last.op = "evaluate" /\ ~IsSentinel(last.item)) => SentinelCalls = {}
    /\ last.op \in {"request", "get_dependencies"}
       => /\ SentinelCalls = {}
          /\ last.exc.type # "RuntimeError"
          /\ (IsSentinel(last.item) /\ last.item \notin DOMAIN last.before.store)
             => /\ last.ok =>
                      last.ev = <<[t |-> "raw", f |-> last.item, depth |-> 0]>>
                /\ ~last.ok =>
                      /\ last.exc.type = "AttributeError"
                      /\ ~last.before.pf.unit_registry
                      /\ \A i \in 1 .. Len(last.ev) : last.ev[i].t = "raw"

C20_Witness ==
    /\ last.op = "request"
    /\ last.item = "baz"
    /\ last.item \notin DOMAIN last.before.store
    /\ Failing # {}
    /\ last.ok
    /\ "baz" \in DOMAIN probe.store

(***************************************************************************)
(* get_dependencies, checked under SpecProbe                               *)
(***************************************************************************)
\* The entries of the history in which the closure of f is invoked
ClosureCalls(f) ==
    {i \in 1 .. Len(last.ev) : last.ev[i].t = "closure" /\ last.ev[i].f = f}

MaxParticles == 3

ParticleNames == {"Velocities", "Velocity", "particle_mass"}

ParticleUnits(name) == IF name \in VectorNames THEN "cm/s" ELSE "g"

\* add_field(name, function = NullFunc, particle_type = True, units = ...)
\* for the names of registered that are in names
RECURSIVE ParticleCatalogue(_, _, _, _)
ParticleCatalogue(rs, names, registered, oid) ==
    IF names = <<>> THEN rs
    ELSE ParticleCatalogue(
            IF Head(names) \in registered
            THEN add_field_units(rs, FieldInfo, Head(names), NullFunc, <<>>,
                                 TRUE, ParticleUnits(Head(names)), oid)
            ELSE rs,
            Tail(names), registered, oid + 1)

\* e.NumberOfParticles = n
SetNumberOfParticles(n) ==
    /\ probe # NoProbe
    /\ probe.NumberOfParticles # n
    /\ probe' = [probe EXCEPT !.NumberOfParticles = n]
    /\ last' = [op |-> "NumberOfParticles", item |-> ""]
    /\ UNCHANGED regVars

InitParticle ==
    /\ \E registered \in SUBSET ParticleNames :
          regs = ParticleCatalogue([r \in RegIds |-> EmptyDict],
                     <<"Velocities", "Velocity", "particle_mass">>,
                     registered, 1)
    /\ fallback = [r \in RegIds |-> NoReg]
    /\ alive = {FieldInfo}
    /\ nextObj = 4
    /\ replaced = {}
    /\ latest = [r \in RegIds |-> [k \in RegKeys |-> 0]]
    /\ probe = NoProbe
    /\ last = NoLast

NextParticle ==
    \/ \E c \in ProbeChoices : NewProbe(c[1], c[2], c[3])
    \/ \E n \in 0 .. MaxParticles : SetNumberOfParticles(n)
    \/ \E item \in ParticleNames : Request(item)

SpecParticle == InitParticle /\ [][NextParticle]_vars

\* The key last.item, the name of a particle field, was requested from a
\* FieldDetector that did not hold it
ParticleRequest ==
    /\ last.op = "request"
    /\ last.item \in ParticleNames
    /\ last.item \notin DOMAIN last.before.store

PlaceholderShape(item, n) == IF item \in VectorNames THEN <<n, 3>> ELSE <<n>>

\* C22: the request of a particle field on a probe with NumberOfParticles P
\* returns a placeholder of shape (P, 3) for the names of a vector and (P,)
\* for the others, with the units of the field when it is registered, and
\* appends the name to the request log once; this for a name FieldInfo does
\* not hold as well.
C22_ParticlePlaceholder ==
    ParticleRequest
    => /\ last.ok
       /\ last.val.shape =
             PlaceholderShape(last.item, last.before.NumberOfParticles)
       /\ last.item \in DOMAIN regs[FieldInfo]
          => last.val = YTArray(last.val.shape, ParticleUnits(last.item))
       /\ probe.requested = Append(last.before.requested, last.item)

\* What the request of a particle field does: the placeholder is built when
\* FieldInfo holds the name and the parameter file has a unit_registry;
\* without a unit_registry AttributeError is raised and nothing is logged or
\* stored; for a name FieldInfo does not hold KeyError is raised after the
\* name was logged twice.
ParticleRequestOutcome ==
    ParticleRequest
    => IF last.item \notin DOMAIN regs[FieldInfo]
       THEN /\ ~last.ok
            /\ last.exc.type = "KeyError"
            /\ probe.requested =
                  last.before.requested \o <<last.item, last.item>>
            /\ probe.store = last.before.store
       ELSE IF ~last.before.pf.unit_registry
       THEN /\ ~last.ok
            /\ last.exc.type = "AttributeError"
            /\ probe = last.before
       ELSE /\ last.ok
            /\ last.val =
                  YTArray(PlaceholderShape(last.item,
                                           last.before.NumberOfParticles),
                          ParticleUnits(last.item))
            /\ probe.requested = Append(last.before.requested, last.item)
            /\ probe.store[last.item] = last.val

(***************************************************************************)
(* The fields of add_grad on a FieldDetector.  FieldInfo holds the raw     *)
(* fields bar, dx, dy and dz, the field Density (raw, or derived from bar  *)
(* with or without a ValidateSpatial) and, after add_grad("Density"), its  *)
(* four gradient fields.                                                   *)
(***************************************************************************)
\* Density as [function, validators]
GradBaseChoices ==
    {<<NullFunc, <<>>>>}
    \cup {<<Def(<<<<"F", "bar">>>>), vs>> :
            vs \in {<<>>} \cup {<<v>> : v \in SpatialValidators}}

GradCatalogue(d) ==
    add_grad(
        add_field(add_field(add_field(add_field(add_field(
            [r \in RegIds |-> EmptyDict],
            FieldInfo, "bar", NullFunc, <<>>, FALSE, 1),
            FieldInfo, "dx", NullFunc, <<>>, FALSE, 2),
            FieldInfo, "dy", NullFunc, <<>>, FALSE, 3),
            FieldInfo, "dz", NullFunc, <<>>, FALSE, 4),
            FieldInfo, "Density", d[1], d[2], FALSE, 5),
        FieldInfo, "Density", 6)

GradFieldNames ==
    {"Density", "dx", "Grad_Density_x", "Grad_Density_y", "Grad_Density_z",
     "Grad_Density"}

\* Operations of this specification on a FieldDetector stop once its request
\* log is longer than this
MaxGradLog == 4

\* e[item]
GradProbeRequest(item) ==
    /\ probe # NoProbe
    /\ Len(probe.requested) <= MaxGradLog
    /\ Returned("request", item, probe,
                FieldDetector_getitem(probe, <<>>, item, 0))
    /\ UNCHANGED regVars

\* FieldInfo[name](e)
GradProbeEvaluate(name) ==
    /\ probe # NoProbe
    /\ Len(probe.requested) <= MaxGradLog
    /\ Returned("evaluate", name, probe,
                DerivedField_call(regs[FieldInfo][name], probe, <<>>, 0))
    /\ UNCHANGED regVars

InitGradProbe ==
    /\ \E d \in GradBaseChoices : regs = GradCatalogue(d)
    /\ fallback = [r \in RegIds |-> NoReg]
    /\ alive = {FieldInfo}
    /\ nextObj = 10
    /\ replaced = {}
    /\ latest = [r \in RegIds |-> [k \in RegKeys |-> 0]]
    /\ probe = NoProbe
    /\ last = NoLast

NextGradProbe ==
    \/ \E c \in ProbeChoices : NewProbe(c[1], c[2], c[3])
    \/ \E name \in {"Grad_Density", "Grad_Density_z"}, c \in ProbeChoices :
          GetDependencies(name, c[1], c[2], c[3])
    \/ \E item \in GradFieldNames : GradProbeRequest(item)
    \/ \E name \in {"Grad_Density", "Grad_Density_y"} : GradProbeEvaluate(name)

SpecGradProbe == InitGradProbe /\ [][NextGradProbe]_vars

Partials == {GradAxName("Density", ax) : ax \in {"x", "y", "z"}}

\* Grad_Density was requested from a FieldDetector that did not hold it
GradRequest ==
    /\ last.op \in {"request", "get_dependencies"}
    /\ last.item = GradName("Density")
    /\ last.item \notin DOMAIN last.before.store

\* The entries of the history in which the validators of f were called
ValidateCalls(f) ==
    {i \in 1 .. Len(last.ev) : last.ev[i].t = "validate" /\ last.ev[i].f = f}

\* C23: each of the three partial derivatives add_grad(F) builds has the one
\* validator ValidateSpatial(1, [F]), and Grad_F has none.  The request of
\* Grad_F on a FieldDetector of side N (it has no ghost zones) that does not
\* hold it calls the closure of Grad_F once, on that FieldDetector, and builds
\* no sub-probe for Grad_F; every partial the FieldDetector does not hold
\* and the closure comes to read is resolved through one sub-probe of its
\* own, of side N + 2 with one ghost zone, and a partial it holds through
\* none; when the request returns, all three were read and the result has
\* side N: (N, N, N), or N * N * N values on a flat FieldDetector.
C23_GradientValidatorsAndSubProbes ==
    /\ \A p \in Partials :
          regs[FieldInfo][p].validators = <<ValidateSpatial(1, <<"Density">>)>>
    /\ regs[FieldInfo][GradName("Density")].validators = <<>>
    /\ GradRequest
       => /\ SubProbesOf(last.item) = {}
          /\ ValidateCalls(last.item) = {1}
          /\ ClosureCalls(last.item) = {2}
          /\ last.ev[1].depth = 0
          /\ last.ev[2].depth = 0
          /\ \A p \in Partials :
                /\ Cardinality(SubProbesOf(p)) <= 1
                /\ p \in DOMAIN last.before.store => SubProbesOf(p) = {}
                /\ (last.ok /\ p \notin DOMAIN last.before.store)
                   => Cardinality(SubProbesOf(p)) = 1
                /\ \A i \in SubProbesOf(p) :
                      /\ last.ev[i].nd = last.before.nd + 2
                      /\ last.ev[i].num_ghost_zones = 1
                      /\ last.ev[i].spatial
                      /\ last.ev[i].depth = 1
          /\ last.ok
             => /\ last.val =
                      (IF last.before.flat
                       THEN Array(<<last.before.nd * last.before.nd
                                      * last.before.nd>>)
                       ELSE Array(<<last.before.nd, last.before.nd,
                                    last.before.nd>>))
                /\ probe.store[last.item] = last.val

\* The request of Grad_Density on a FieldDetector that holds one partial
GradRequestHoldingPartial ==
    /\ GradRequest
    /\ last.ok
    /\ DOMAIN last.before.store \cap Partials = {"Grad_Density_x"}
    /\ Cardinality(SubProbesOf("Grad_Density_y")) = 1

C23_Witness ==
    /\ GradRequest
    /\ last.ok
    /\ last.before.nd = DefaultNd
    /\ ~last.before.flat
    /\ DOMAIN last.before.store \cap Partials = {}
    /\ \A p \in Partials :
          \E i \in SubProbesOf(p) : last.ev[i].nd = DefaultNd + 2
    /\ last.val = Array(<<DefaultNd, DefaultNd, DefaultNd>>)

(***************************************************************************)
(* The closures _gradx, _grady and _gradz of add_grad as functions of the  *)
(* arrays they read.  An array of numbers is [shape, at], at the value at  *)
(* each index <<i, j, k>>, counted from 0; a python slice is [start, stop] *)
(* with None or an integer for each.  The values stand for floats: the     *)
(* quotient of the in-place division is kept as [num, den].                *)
(***************************************************************************)
None == [none |-> TRUE, v |-> 0]

Bound(k) == [none |-> FALSE, v |-> k]

slice(start, stop) == [start |-> start, stop |-> stop]

\* sl = slice(2, None, None)
sl == slice(Bound(2), None)

\* sr = slice(None, -2, None)
sr == slice(None, Bound(0 - 2))

\* 1:-1
inner == slice(Bound(1), Bound(0 - 1))

\* The position a slice bound k stands for on an axis of length n
SliceBound(n, k) ==
    IF k < 0 THEN (IF n + k < 0 THEN 0 ELSE n + k)
    ELSE IF k > n THEN n ELSE k

\* The indices a slice selects on an axis of length n, in order
SliceIndices(n, s) ==
    LET a == IF s.start.none THEN 0 ELSE SliceBound(n, s.start.v)
        b == IF s.stop.none THEN n ELSE SliceBound(n, s.stop.v)
    IN  [t \in 1 .. (IF b > a THEN b - a ELSE 0) |-> a + t - 1]

Cells(shape) ==
    (0 .. shape[1] - 1) \X (0 .. shape[2] - 1) \X (0 .. shape[3] - 1)

\* a[s1, s2, s3]
GetSlice(a, s1, s2, s3) ==
    LET i1 == SliceIndices(a.shape[1], s1)
        i2 == SliceIndices(a.shape[2], s2)
        i3 == SliceIndices(a.shape[3], s3)
    IN  [shape |-> <<Len(i1), Len(i2), Len(i3)>>,
         at |-> [c \in Cells(<<Len(i1), Len(i2), Len(i3)>>) |->
                    a.at[<<i1[c[1] + 1], i2[c[2] + 1], i3[c[3] + 1]>>]]]

\* a - b for arrays of one shape
Minus(a, b) ==
    [shape |-> a.shape, at |-> [c \in Cells(a.shape) |-> a.at[c] - b.at[c]]]

\* grad /= d
DivideBy(grad, d) ==
    [shape |-> grad.shape,
     at |-> [c \in Cells(grad.shape) |-> [num |-> grad.at[c], den |-> d]]]

\* np.zeros(shape, dtype = 'float64')
zeros(shape) ==
    [shape |-> shape, at |-> [c \in Cells(shape) |-> [num |-> 0, den |-> 1]]]

\* g[1:-1, 1:-1, 1:-1] = grad
SetInner(g, grad) ==
    LET i1 == SliceIndices(g.shape[1], inner)
        i2 == SliceIndices(g.shape[2], inner)
        i3 == SliceIndices(g.shape[3], inner)
    IN  [shape |-> g.shape,
         at |-> [c \in Cells(g.shape) |->
                    IF /\ \E t \in DOMAIN i1 : c[1] = i1[t]
                       /\ \E t \in DOMAIN i2 : c[2] = i2[t]
                       /\ \E t \in DOMAIN i3 : c[3] = i3[t]
                    THEN grad.at[<<c[1] - i1[1], c[2] - i2[1], c[3] - i3[1]>>]
                    ELSE g.at[c]]]

\* data["dx"].flat[0]
flat0(a) == a.at[<<0, 0, 0>>]

\* A variant of _gradx with sl and sr exchanged
gradx_Exchanged(F, dx) ==
    SetInner(zeros(F.shape),
        DivideBy(Minus(GetSlice(F, sr, inner, inner),
                       GetSlice(F, sl, inner, inner)),
                 2 * flat0(dx)))

\* _gradx(f, data), F = data[field] and dx = data["dx"]
gradx(F, dx) ==
    SetInner(zeros(F.shape),
        DivideBy(Minus(GetSlice(F, sl, inner, inner),
                       GetSlice(F, sr, inner, inner)),
                 2 * flat0(dx)))

\* _grady(f, data)
grady(F, dy) ==
    SetInner(zeros(F.shape),
        DivideBy(Minus(GetSlice(F, inner, sl, inner),
                       GetSlice(F, inner, sr, inner)),
                 2 * flat0(dy)))

\* _gradz(f, data)
gradz(F, dz) ==
    SetInner(zeros(F.shape),
        DivideBy(Minus(GetSlice(F, inner, inner, sl),
                       GetSlice(F, inner, inner, sr)),
                 2 * flat0(dz)))

\* The largest side of the arrays
MaxSide == 4

\* The largest value of the cell that is set apart
MaxValue == 2

\* The arrays data[field] of the model: a + b * i + c * j + d * k, and v more
\* at one cell
Fields(n) ==
    {[shape |-> <<n, n, n>>,
      at |-> [c \in Cells(<<n, n, n>>) |->
                 w[1] * c[1] + w[2] * c[2] + w[3] * c[3]
                 + (IF c = p THEN v ELSE 0)]] :
        w \in (0 .. 1) \X (0 .. 1) \X (0 .. 1), v \in 0 .. MaxValue,
        p \in Cells(<<n, n, n>>)}

\* data["dx"], data["dy"], data["dz"]: one spacing in every cell
Spacings(n) ==
    {[ax \in {"x", "y", "z"} |->
         [shape |-> <<n, n, n>>, at |-> [c \in Cells(<<n, n, n>>) |-> d[ax]]]] :
        d \in {[x |-> 1, y |-> 2, z |-> 3], [x |-> 2, y |-> 1, z |-> 1]}}

\* The closure of Grad_F_ax is called on a data object that holds F and dds
Differentiate(ax) ==
    /\ last.op \in {"data", "grad"}
    /\ last' = [op |-> "grad", ax |-> ax, F |-> last.F, dds |-> last.dds,
                g |-> IF ax = "x" THEN gradx(last.F, last.dds.x)
                      ELSE IF ax = "y" THEN grady(last.F, last.dds.y)
                      ELSE gradz(last.F, last.dds.z)]
    /\ UNCHANGED <<regVars, probe>>

InitStencil ==
    /\ regs = [r \in RegIds |-> EmptyDict]
    /\ fallback = [r \in RegIds |-> NoReg]
    /\ alive = {FieldInfo}
    /\ nextObj = 1
    /\ replaced = {}
    /\ latest = [r \in RegIds |-> [k \in RegKeys |-> 0]]
    /\ probe = NoProbe
    /\ \E n \in 1 .. MaxSide :
          \E F \in Fields(n), dds \in Spacings(n) :
             last = [op |-> "data", F |-> F, dds |-> dds]

NextStencil == \E ax \in {"x", "y", "z"} : Differentiate(ax)

SpecStencil == InitStencil /\ [][NextStencil]_vars

\* The index c moved by k along the axis ax
Shift(c, ax, k) ==
    IF ax = "x" THEN <<c[1] + k, c[2], c[3]>>
    ELSE IF ax = "y" THEN <<c[1], c[2] + k, c[3]>>
    ELSE <<c[1], c[2], c[3] + k>>

OnBorder(c, n) == \E i \in 1 .. 3 : c[i] = 0 \/ c[i] = n - 1

\* C24: for a cubic F of side n >= 3 the closure of each partial derivative
\* returns an array of the shape of F that is 0 at every cell with an index
\* equal to 0 or n - 1 and, at every other cell, the difference of F at the
\* next and at the previous index along its axis, divided by twice the cell
\* spacing of that axis.
C24_CentredDifferenceZeroBorder ==
    (last.op = "grad" /\ last.F.shape[1] >= 3)
    => /\ last.g.shape = last.F.shape
       /\ \A c \in Cells(last.F.shape) :
             IF OnBorder(c, last.F.shape[1])
             THEN last.g.at[c].num = 0
             ELSE last.g.at[c].num * 2 * flat0(last.dds[last.ax])
                     = (last.F.at[Shift(c, last.ax, 1)]
                        - last.F.at[Shift(c, last.ax, 0 - 1)])
                       * last.g.at[c].den

C24_Witness ==
    /\ last.op = "grad"
    /\ last.ax = "y"
    /\ last.F.shape = <<4, 4, 4>>
    /\ last.g.at[<<1, 2, 1>>] = [num |-> 3, den |-> 4]
    /\ last.g.at[<<1, 1, 1>>] = [num |-> 2, den |-> 4]
    /\ last.g.at[<<0, 2, 1>>].num = 0

(***************************************************************************)
(* Materialized keys, checked under SpecProbe                              *)
(***************************************************************************)
IsDerived(f) ==
    f \in DOMAIN regs[FieldInfo] /\ regs[FieldInfo][f].function.kind # "NullFunc"

SpatialOnlyRequest ==
    /\ last.op = "request"
    /\ IsDerived(last.item)
    /\ last.item \notin DOMAIN last.before.store
    /\ last.before.spatial
    /\ \A i \in 1 .. Len(regs[FieldInfo][last.item].validators) :
          regs[FieldInfo][last.item].validators[i].v = "ValidateSpatial"
    /\ \A f \in Reads(last.item) : ~IsDerived(f)

\* C26: the request, on a spatial probe, of a key whose validators are any
\* ValidateSpatial in any order does not end with NeedsGridType.
C26_SpatialSignalNeverEscapes ==
    SpatialOnlyRequest => ~(~last.ok /\ last.exc.type = "NeedsGridType")

\* The validators of last.item that ask for more ghost zones than the first
\* of them that fails on the FieldDetector
Outgrown ==
    {j \in 1 .. Len(regs[FieldInfo][last.item].validators) :
        /\ Failing # {}
        /\ j > FirstFailing
        /\ regs[FieldInfo][last.item].validators[j].ghost_zones
              > regs[FieldInfo][last.item].validators[FirstFailing].ghost_zones}

\* What the request does: the sub-probe has the ghost zones of the first
\* validator that failed, and the first later validator that asks for more
\* raises NeedsGridType on the sub-probe, which ends the request.
SpatialSignalEscapesWhenOutgrown ==
    SpatialOnlyRequest
    => /\ (~last.ok /\ last.exc.type = "NeedsGridType") <=> Outgrown # {}
       /\ Outgrown # {}
          => /\ last.exc.ghost_zones =
                   regs[FieldInfo][last.item]
                       .validators[CHOOSE j \in Outgrown :
                                      \A k \in Outgrown : j <= k].ghost_zones
             /\ Cardinality(SubProbesOf(last.item)) = 1
             /\ last.item \notin DOMAIN probe.store

(***************************************************************************)
(* keys() and iteration, checked under SpecRegistry                        *)
(***************************************************************************)
\* C27: on every container, whatever its fallback chain, keys() is the
\* sequence of keys that iterating the container yields: the local keys, then
\* those of the whole fallback chain.
C27_KeysSameAsIteration ==
    \A r \in alive :
        FieldInfoContainer_keys(regs, fallback, r)
            = FieldInfoContainer_iter(regs, fallback, r)

\* The containers of r's chain that keys() reads: r, and those after it up to
\* the first that has no local keys
RECURSIVE KeysChain(_)
KeysChain(r) ==
    <<r>> \o (IF fallback[r] = NoReg \/ DOMAIN regs[fallback[r]] = {}
              THEN <<>> ELSE KeysChain(fallback[r]))

RECURSIVE LocalKeysOf(_)
LocalKeysOf(chain) ==
    IF chain = <<>> THEN <<>>
    ELSE DictIter(regs[Head(chain)]) \o LocalKeysOf(Tail(chain))

\* What keys() returns: it goes on to the fallback only while the fallback has
\* local keys, so it is the iteration cut off at the first container of the
\* fallback chain without local keys
KeysStopAtEmptyFallback ==
    \A r \in alive :
        /\ FieldInfoContainer_keys(regs, fallback, r) = LocalKeysOf(KeysChain(r))
        /\ FieldInfoContainer_iter(regs, fallback, r) = LocalKeysOf(ChainSeq(r))

(***************************************************************************)
(* create_with_fallback, checked under SpecRegistry                        *)
(***************************************************************************)
\* Every key of the fallback of r is in r, and a lookup on r returns the local
\* entry if r has one and what the lookup on the fallback returns if not
FallbackVisible ==
    \A r \in alive :
        fallback[r] # NoReg =>
            \A k \in RegKeys :
                /\ k \in DOMAIN regs[fallback[r]]
                   => FieldInfoContainer_contains(regs, fallback, r, k)
                /\ k \notin DOMAIN regs[r]
                   => FieldInfoContainer_getitem(regs, fallback, r, k).val
                         = FieldInfoContainer_getitem(regs, fallback,
                                                      fallback[r], k).val

\* The step is create_with_fallback: the new container has no local keys and
\* no container's dict is changed
CreateStep ==
    last'.op = "create_with_fallback"
    => /\ regs' = regs
       /\ regs'[last'.r] = EmptyDict
       /\ fallback'[last'.r] = last'.fbk
       /\ \A q \in RegIds \ {last'.r} : fallback'[q] = fallback[q]

\* The step is add_field on a container: the other containers, its fallback
\* among them, keep their dicts
AddFieldStep ==
    last'.op = "add_field"
    => /\ \A q \in RegIds \ {last'.r} : regs'[q] = regs[q]
       /\ fallback' = fallback

\* The step is a lookup: no dict is changed, so nothing is copied
LookupStep ==
    last'.op = "lookup" => (regs' = regs /\ fallback' = fallback)

\* C28: a container made by create_with_fallback(F) starts without local keys
\* and only reads F: add_field on it, for a new or for an existing name,
\* leaves the dict of F (and of every other container) as it was, a lookup
\* that is answered by F copies nothing into the container, and what F holds,
\* whenever it was registered, is found through the container.
C28_FallbackIsOnlyRead ==
    /\ []FallbackVisible
    /\ [][CreateStep /\ AddFieldStep /\ LookupStep]_vars

C28_Witness ==
    /\ last.op = "lookup"
    /\ last.ok
    /\ fallback[last.r] # NoReg
    /\ last.key \notin DOMAIN regs[last.r]
    /\ last.key \in DOMAIN regs[fallback[last.r]]
    /\ last.oid = regs[fallback[last.r]][last.key].oid
    /\ \E k \in DOMAIN regs[last.r] : regs[last.r][k].oid < last.oid

(***************************************************************************)
(* The halo index of the GadgetFOF frontend, for one particle type.        *)
(* A data file is [file_id, filename, total_particles, index_start]:       *)
(* total_particles the number of halos of the type in the file, filename   *)
(* the rank of its name among the names of the files, index_start the      *)
(* attribute _calculate_particle_index_starts sets (-1 before).  The index *)
(* is [data_files, halo_index_start, halo_index_end].  The offset          *)
(* attributes that _setup_geometry sets as well (offset_start,             *)
(* offset_files) are not read by the halo lookup and are left out.         *)
(***************************************************************************)
MaxFiles == 3

\* The largest number of halos in a file
MaxHalos == 2

\* self.data_files as ParticleIndex._setup_geometry builds it: one file per
\* file_id, in the order of the file_ids, the names in any order
DataFiles(n) ==
    {[j \in 1 .. n |->
         [file_id |-> j - 1, filename |-> names[j],
          total_particles |-> counts[j], index_start |-> 0 - 1]] :
        names \in {p \in [1 .. n -> 1 .. n] :
                      \A a, b \in 1 .. n : a # b => p[a] # p[b]},
        counts \in [1 .. n -> 0 .. MaxHalos]}

\* The loop of _calculate_particle_index_starts from data_files on, with
\* particle_count[ptype] halos counted so far
RECURSIVE calculate_particle_index_starts(_, _)
calculate_particle_index_starts(data_files, particle_count) ==
    IF data_files = <<>> THEN <<>>
    ELSE <<[Head(data_files) EXCEPT !.index_start = particle_count]>>
         \o calculate_particle_index_starts(Tail(data_files),
                particle_count + Head(data_files).total_particles)

\* sorted(self.data_files): data files compare by their names
sorted(data_files) ==
    SortSeq(data_files, LAMBDA a, b : a.filename < b.filename)

\* _create_halo_id_table
create_halo_id_table(data_files) ==
    [data_files |-> data_files,
     halo_index_start |->
         [j \in DOMAIN data_files |-> data_files[j].index_start],
     halo_index_end |->
         [j \in DOMAIN data_files |->
             data_files[j].total_particles + data_files[j].index_start]]

\* GadgetFOFParticleIndex._setup_geometry
setup_geometry(data_files) ==
    create_halo_id_table(
        sorted(calculate_particle_index_starts(data_files, 0)))

\* np.where(file_index)[0] for the mask of _initialize_particle_handler
file_index(index, particle_identifier) ==
    {j \in DOMAIN index.data_files :
        /\ particle_identifier >= index.halo_index_start[j]
        /\ particle_identifier < index.halo_index_end[j]}

\* GadgetFOFHaloParticleIndex._initialize_particle_handler: the data file, or
\* the exception; a list is indexed by an array of one index only
initialize_particle_handler(index, particle_identifier) ==
    IF particle_identifier
          >= index.halo_index_end[Len(index.halo_index_end)]
    THEN [ok |-> FALSE, exc |-> "RuntimeError", file_id |-> 0 - 1]
    ELSE IF Cardinality(file_index(index, particle_identifier)) # 1
    THEN [ok |-> FALSE, exc |-> "TypeError", file_id |-> 0 - 1]
    ELSE [ok |-> TRUE, exc |-> "",
          file_id |-> index.data_files[
              CHOOSE j \in file_index(index, particle_identifier) : TRUE].file_id]

\* ds.index: the index is set up
SetupGeometry ==
    /\ last.op = "data_files"
    /\ last' = [op |-> "setup_geometry", files |-> last.files,
                index |-> setup_geometry(last.files)]
    /\ UNCHANGED <<regVars, probe>>

\* GadgetFOFHaloDataset(ds, ptype, particle_identifier).index
InitializeParticleHandler(particle_identifier) ==
    /\ last.op \in {"setup_geometry", "halo"}
    /\ last' = [op |-> "halo", files |-> last.files, index |-> last.index,
                particle_identifier |-> particle_identifier,
                res |-> initialize_particle_handler(last.index,
                                                    particle_identifier)]
    /\ UNCHANGED <<regVars, probe>>

InitHalo ==
    /\ regs = [r \in RegIds |-> EmptyDict]
    /\ fallback = [r \in RegIds |-> NoReg]
    /\ alive = {FieldInfo}
    /\ nextObj = 1
    /\ replaced = {}
    /\ latest = [r \in RegIds |-> [k \in RegKeys |-> 0]]
    /\ probe = NoProbe
    /\ \E n \in 1 .. MaxFiles :
          \E files \in DataFiles(n) : last = [op |-> "data_files", files |-> files]

NextHalo ==
    \/ SetupGeometry
    \/ \E i \in 0 .. (MaxFiles * MaxHalos + 1) : InitializeParticleHandler(i)

SpecHalo == InitHalo /\ [][NextHalo]_vars

RECURSIVE SumCounts(_)
SumCounts(files) ==
    IF files = <<>> THEN 0
    ELSE Head(files).total_particles + SumCounts(Tail(files))

\* The number of halos of the catalog
TotalHalos == SumCounts(last.files)

ValidHaloRejected ==
    /\ last.op = "halo"
    /\ last.particle_identifier < TotalHalos
    /\ ~last.res.ok

\* What the lookup does: the ranges of the files are those of the count in
\* the order of the file_ids, whatever the order of the sorted list; the
\* identifiers from the end of the range of the last file of the sorted list
\* on are rejected, and every other one selects the one file whose range
\* holds it.
HaloLookupOutcome ==
    last.op = "halo"
    => /\ \A j \in DOMAIN last.index.data_files :
             last.index.data_files[j].index_start
                = SumCounts(SubSeq(last.files, 1,
                                   last.index.data_files[j].file_id))
       /\ IF last.particle_identifier
                >= last.index.halo_index_end[Len(last.index.data_files)]
          THEN ~last.res.ok /\ last.res.exc = "RuntimeError"
          ELSE /\ last.res.ok
               /\ \E j \in DOMAIN last.index.data_files :
                     /\ last.index.data_files[j].file_id = last.res.file_id
                     /\ last.particle_identifier
                           >= last.index.data_files[j].index_start
                     /\ last.particle_identifier
                           < last.index.halo_index_end[j]

====
